---- MODULE Spec2Model ----
(***************************************************************************)
(* Model of the meme-coin-analysis pipeline: the quota-limited primary     *)
(* social backend (XAPIv2), the paginated secondary backend                *)
(* (TwitterAPIio), the tiered client (TwitterAnalyzer), token discovery    *)
(* and the enrichment worker pool (TokenDiscovery).                        *)
(***************************************************************************)
EXTENDS Integers, Sequences, FiniteSets, TLC

(***************************************************************************)
(* Bounds of the model.                                                    *)
(***************************************************************************)
MaxNow == 36          \* the clock runs over hours 0..MaxNow
MaxSearches == 3      \* searches issued in one behaviour
NearLimit == 1        \* initial records start at most this far below the limit
NThreads == 2         \* concurrent callers of one shared XAPIv2 client
BatchSize == 3        \* tokens in one enrichment batch
MaxRecords == 3       \* raw records in one listing response

(***************************************************************************)
(* Program constants.                                                      *)
(***************************************************************************)
daily_search_limit == 500
max_pages == 10
HoursPerDay == 24
Tenths == 10           \* holdings are kept as tenths of a percent
MaxTweets == 3         \* most mentions in a frame handed to the aggregation
MaxBundlers == 6       \* largest bundler count of a snapshot
ScoreScale == 10000    \* trending_score is kept as a number of 1/10000ths
TickHours == 12        \* granularity at which the model observes the clock

VARIABLES
    now,               \* wall clock (datetime.now()): hours, minutes in discovery
    client,            \* XAPIv2.client is not None
    api_key,           \* TwitterAPIio.api_key is set
    searches_today,    \* XAPIv2.searches_today
    rate_limit_file,   \* contents of rate_limits.json
    file_size,         \* length of rate_limits.json, see record_size
    tsize,             \* per thread: length of the record save_rate_limits built
    result,            \* value returned by the last tiered search
    primary_result,    \* value the primary returned inside the last search
    x_calls,           \* upstream calls the primary made in the last search
    io_called,         \* the last search called the secondary backend
    io_requests,       \* page requests the secondary made in the last search
    n_search,          \* searches issued so far
    rate_limited_at,   \* clock of the last 'too many requests' answer, -1 if none
    query,             \* contract address and symbol of the last tiered search
    tpc,               \* concurrent callers: position of each in search_tweets
    tloc,              \* concurrent callers: the value each has read
    tret,              \* concurrent callers: how each call ended
    up_calls,          \* concurrent callers: upstream calls made so far
    initial_searches,  \* concurrent callers: the counter before the first call
    tokens,            \* check_twitter_mentions: the list passed in (dicts mutated in place)
    max_workers,       \* check_twitter_mentions: size of the worker pool
    task,              \* check_twitter_mentions: state of each submitted future
    search_outcome,    \* check_twitter_mentions: what each token's search did
    consulted,         \* check_twitter_mentions: backends each token's task called
    tokens_with_mentions, \* check_twitter_mentions: the list being built
    returned,          \* check_twitter_mentions has returned
    moralis_api_key,   \* TokenDiscovery.moralis_api_key is set
    listing,           \* what the listing source answers
    minutes_old,       \* get_new_tokens: its argument
    all_tokens,        \* get_new_tokens: the list before deduplication
    new_tokens,        \* get_new_tokens: the list returned
    discovered,        \* get_new_tokens has returned
    min_mentions,      \* discover_trending_tokens: its argument
    trending,          \* discover_trending_tokens: rows of the frame returned
    ranked,            \* discover_trending_tokens has returned
    io_log,            \* secondary backend alone: the searches made so far
    coin_data,         \* risk scorer: the metrics snapshot passed in
    risk_assessment,   \* risk scorer: what calculate_risk_score did
    tweets_df,         \* sentiment: the analysed mentions handed to the aggregation
    metrics,           \* sentiment: what get_aggregate_metrics returned
    request,           \* analysis: the request of the caller
    results,           \* analysis: what MemeCoinAnalyzer.analyze_coin returned
    api_response,      \* analysis: what the /analyze handler answered
    backend_calls,     \* analysis: the backends called for the request
    discovery_result   \* discover_trending_tokens: the frame it returned

tieredVars == <<now, client, api_key, searches_today, rate_limit_file, result,
                primary_result, x_calls, io_called, io_requests, n_search,
                rate_limited_at, query>>

concVars == <<tpc, tloc, tret, up_calls, initial_searches, file_size, tsize>>

enrichVars == <<tokens, max_workers, task, search_outcome, consulted,
                tokens_with_mentions, returned>>

discoveryVars == <<moralis_api_key, listing, minutes_old, all_tokens,
                   new_tokens, discovered>>

rankVars == <<min_mentions, trending, ranked>>

secondaryVars == <<io_log>>

riskVars == <<coin_data, risk_assessment>>

sentimentVars == <<tweets_df, metrics>>

analyzeVars == <<request, results, api_response, backend_calls>>

outcomeVars == <<discovery_result>>

vars == <<tieredVars, concVars, enrichVars, discoveryVars, rankVars,
          secondaryVars, riskVars, sentimentVars,
                   analyzeVars, outcomeVars>>

(***************************************************************************)
(* Values.                                                                 *)
(***************************************************************************)
\* A pandas DataFrame of mentions is a sequence of rows; None is kept apart.
None == [isNone |-> TRUE, rows |-> <<>>]
DataFrame(rows) == [isNone |-> FALSE, rows |-> rows]
Empty(df) == df.rows = <<>>

Tweet(id, at, user, fol, vw, lk, rt) ==
    [tweet_id |-> id, created_at |-> at, username |-> user, followers |-> fol,
     views |-> vw, likes |-> lk, retweets |-> rt]

DateOf(t) == t \div HoursPerDay

\* df.sort_values('created_at', ascending=False): insertion into a descending
\* sequence; rows with equal keys keep their order.
RECURSIVE InsertDesc(_, _)
InsertDesc(row, sorted) ==
    IF sorted = <<>> THEN <<row>>
    ELSE IF Head(sorted).created_at >= row.created_at
         THEN <<Head(sorted)>> \o InsertDesc(row, Tail(sorted))
         ELSE <<row>> \o sorted

RECURSIVE sort_values(_)
sort_values(rows) ==
    IF rows = <<>> THEN <<>>
    ELSE LET n == Len(rows)
         IN InsertDesc(rows[n], sort_values(SubSeq(rows, 1, n - 1)))

(***************************************************************************)
(* XAPIv2: the primary backend and its persisted quota counter.            *)
(***************************************************************************)
NoFile == [kind |-> "absent", date |-> 0, searches |-> 0]
CorruptFile == [kind |-> "corrupt", date |-> 0, searches |-> 0]

\* A loader that forgets the saved count.
load_rate_limits_Forgets(file, t) == 0

load_rate_limits(file, t) ==
    IF file.kind = "ok" /\ DateOf(file.date) = DateOf(t)
    THEN file.searches
    ELSE 0

\* The length of the record json.dump writes, less the characters every
\* record has: the digits of the count, and the microseconds of
\* datetime.now().isoformat(), which are left out when they are zero.
RECURSIVE Digits(_)
Digits(n) == IF n < 10 THEN 1 ELSE 1 + Digits(n \div 10)
MicrosecondChars == 7
record_size(searches, micro) ==
    Digits(searches) + (IF micro THEN MicrosecondChars ELSE 0)

\* A save that runs before the counter is updated and writes the old value.
save_rate_limits_Stale(t, searches) ==
    [kind |-> "ok", date |-> t, searches |-> searches - 1]

save_rate_limits(t, searches) ==
    [kind |-> "ok", date |-> t, searches |-> searches]

\* An off-by-one quota check.
can_search_OffByOne(searches) == searches <= daily_search_limit

can_search(searches) == searches < daily_search_limit

increment_search_count(searches) == searches + 1

\* What the upstream does with one search_recent_tweets call.
XOutcomes ==
    { [kind |-> "TooManyRequests", data |-> <<>>],
      [kind |-> "Exception", data |-> <<>>],
      [kind |-> "response", data |-> <<>>],
      [kind |-> "response", data |-> <<Tweet("11", 3, "x1", 10, 100, 1, 2)>>],
      [kind |-> "response",
       data |-> <<Tweet("11", 3, "x1", 10, 100, 1, 2), Tweet("12", 5, "x2", 20, 200, 3, 4)>>] }

\* The whole of XAPIv2.search_tweets: the value returned, the counter and the
\* record afterwards, and the number of upstream calls made.
XAPIv2_search_tweets(hasClient, searches, file, t, ca, sym, outcome) ==
    IF ~hasClient \/ ~can_search(searches)
    THEN [ret |-> None, searches |-> searches, file |-> file, calls |-> 0,
          limited |-> FALSE]
    ELSE IF ca = "" /\ sym = ""
    THEN [ret |-> DataFrame(<<>>), searches |-> searches, file |-> file,
          calls |-> 0, limited |-> FALSE]
    ELSE IF outcome.kind = "TooManyRequests"
    THEN [ret |-> None, searches |-> daily_search_limit,
          file |-> save_rate_limits(t, daily_search_limit), calls |-> 1,
          limited |-> TRUE]
    ELSE IF outcome.kind = "Exception"
    THEN [ret |-> None, searches |-> searches, file |-> file, calls |-> 1,
          limited |-> FALSE]
    ELSE LET s == increment_search_count(searches)
         IN [ret |-> DataFrame(sort_values(outcome.data)), searches |-> s,
             file |-> save_rate_limits(t, s), calls |-> 1, limited |-> FALSE]

(***************************************************************************)
(* TwitterAPIio: the secondary, paginated backend.                         *)
(***************************************************************************)
\* Mock data that is the same whenever it is asked for.
get_mock_data_FixedDates(t) ==
    << Tweet("1", -1, "cryptotrader1", 5432, 8934, 123, 45),
       Tweet("2", -2, "defiexpert", 12543, 45632, 456, 234),
       Tweet("3", -3, "tokenanalyst", 8932, 12456, 234, 67),
       Tweet("4", -4, "memecoinlord", 23456, 87654, 1234, 567),
       Tweet("5", -5, "chainalysis", 45678, 234567, 2345, 890),
       Tweet("6", -6, "altcoinhunter", 18234, 56789, 678, 234),
       Tweet("7", -7, "cryptodetective", 34567, 123456, 890, 456),
       Tweet("8", -8, "degen_trader", 9876, 34567, 345, 123) >>

\* _get_mock_data: eight fixed mentions dated 1..8 hours before the call.
get_mock_data(t) ==
    << Tweet("1", t - 1, "cryptotrader1", 5432, 8934, 123, 45),
       Tweet("2", t - 2, "defiexpert", 12543, 45632, 456, 234),
       Tweet("3", t - 3, "tokenanalyst", 8932, 12456, 234, 67),
       Tweet("4", t - 4, "memecoinlord", 23456, 87654, 1234, 567),
       Tweet("5", t - 5, "chainalysis", 45678, 234567, 2345, 890),
       Tweet("6", t - 6, "altcoinhunter", 18234, 56789, 678, 234),
       Tweet("7", t - 7, "cryptodetective", 34567, 123456, 890, 456),
       Tweet("8", t - 8, "degen_trader", 9876, 34567, 345, 123) >>

\* One answer of the advanced_search endpoint.
PageOf(st, tw, more, cur) ==
    [raises |-> FALSE, status |-> st, tweets |-> tw, has_next_page |-> more,
     next_cursor |-> cur]
PageRaises ==
    [raises |-> TRUE, status |-> 0, tweets |-> <<>>, has_next_page |-> FALSE,
     next_cursor |-> FALSE]

\* The upstream of one search is a script of answers; the last one repeats.
PageAt(pages, i) == IF i <= Len(pages) THEN pages[i] ELSE pages[Len(pages)]

TwA == Tweet("21", 4, "userA", 30, 3000, 5, 6)
TwB == Tweet("22", 7, "userB", 40000, 400, 7, 8)

PageScripts ==
    { <<PageOf(200, <<>>, FALSE, FALSE)>>,
      <<PageOf(200, <<TwA>>, FALSE, FALSE)>>,
      <<PageOf(200, <<TwA>>, TRUE, TRUE), PageOf(200, <<TwB>>, FALSE, FALSE)>>,
      <<PageOf(200, <<TwA>>, TRUE, TRUE)>>,
      <<PageOf(200, <<TwA>>, TRUE, FALSE)>>,
      <<PageOf(200, <<TwA>>, TRUE, TRUE), PageOf(500, <<>>, FALSE, FALSE)>>,
      <<PageOf(200, <<TwA>>, TRUE, TRUE), PageRaises>>,
      <<PageOf(500, <<>>, FALSE, FALSE)>>,
      <<PageRaises>> }

\* A paging loop that does not look at max_results.
RECURSIVE IoLoop_IgnoresMaxResults(_, _, _, _, _)
IoLoop_IgnoresMaxResults(pages, i, page_count, acc, max_results) ==
    IF ~(page_count < max_pages)
    THEN [rows |-> acc, requests |-> i - 1, raised |-> FALSE]
    ELSE LET p == PageAt(pages, i)
         IN IF p.raises
            THEN [rows |-> acc, requests |-> i, raised |-> TRUE]
            ELSE IF p.status # 200
            THEN [rows |-> acc, requests |-> i, raised |-> FALSE]
            ELSE IF p.tweets = <<>>
            THEN [rows |-> acc, requests |-> i, raised |-> FALSE]
            ELSE LET all == acc \o p.tweets
                 IN IF ~p.has_next_page \/ ~p.next_cursor
                    THEN [rows |-> all, requests |-> i, raised |-> FALSE]
                    ELSE IoLoop_IgnoresMaxResults(pages, i + 1, page_count + 1,
                                                  all, max_results)

\* The while loop of TwitterAPIio.search_tweets from request number i on.
RECURSIVE IoLoop(_, _, _, _, _)
IoLoop(pages, i, page_count, acc, max_results) ==
    IF ~(page_count < max_pages)
    THEN [rows |-> acc, requests |-> i - 1, raised |-> FALSE]
    ELSE LET p == PageAt(pages, i)
         IN IF p.raises
            THEN [rows |-> acc, requests |-> i, raised |-> TRUE]
            ELSE IF p.status # 200
            THEN [rows |-> acc, requests |-> i, raised |-> FALSE]
            ELSE IF p.tweets = <<>>
            THEN [rows |-> acc, requests |-> i, raised |-> FALSE]
            ELSE LET all == acc \o p.tweets
                 IN IF Len(all) >= max_results
                    THEN [rows |-> all, requests |-> i, raised |-> FALSE]
                    ELSE IF ~p.has_next_page \/ ~p.next_cursor
                    THEN [rows |-> all, requests |-> i, raised |-> FALSE]
                    ELSE IoLoop(pages, i + 1, page_count + 1, all, max_results)

\* A secondary backend that looks at the query before it looks at its key.
TwitterAPIio_search_tweets_QueryBeforeKey(key, t, ca, sym, max_results, pages) ==
    IF ca = "" /\ sym = ""
    THEN [ret |-> DataFrame(<<>>), requests |-> 0, mock |-> FALSE]
    ELSE IF ~key
    THEN [ret |-> DataFrame(get_mock_data(t)), requests |-> 0, mock |-> TRUE]
    ELSE LET r == IoLoop(pages, 1, 0, <<>>, max_results)
         IN IF r.raised
            THEN [ret |-> DataFrame(get_mock_data(t)), requests |-> r.requests,
                  mock |-> TRUE]
            ELSE [ret |-> DataFrame(sort_values(r.rows)),
                  requests |-> r.requests, mock |-> FALSE]

\* A secondary backend whose exception handler hands None to the caller.
TwitterAPIio_search_tweets_NoneOnError(key, t, ca, sym, max_results, pages) ==
    IF ~key
    THEN [ret |-> DataFrame(get_mock_data(t)), requests |-> 0, mock |-> TRUE]
    ELSE IF ca = "" /\ sym = ""
    THEN [ret |-> DataFrame(<<>>), requests |-> 0, mock |-> FALSE]
    ELSE LET r == IoLoop(pages, 1, 0, <<>>, max_results)
         IN IF r.raised
            THEN [ret |-> None, requests |-> r.requests, mock |-> FALSE]
            ELSE [ret |-> DataFrame(sort_values(r.rows)),
                  requests |-> r.requests, mock |-> FALSE]

TwitterAPIio_search_tweets(key, t, ca, sym, max_results, pages) ==
    IF ~key
    THEN [ret |-> DataFrame(get_mock_data(t)), requests |-> 0, mock |-> TRUE]
    ELSE IF ca = "" /\ sym = ""
    THEN [ret |-> DataFrame(<<>>), requests |-> 0, mock |-> FALSE]
    ELSE LET r == IoLoop(pages, 1, 0, <<>>, max_results)
         IN IF r.raised
            THEN [ret |-> DataFrame(get_mock_data(t)), requests |-> r.requests,
                  mock |-> TRUE]
            ELSE [ret |-> DataFrame(sort_values(r.rows)),
                  requests |-> r.requests, mock |-> FALSE]

(***************************************************************************)
(* TwitterAnalyzer: the tiered client.                                     *)
(***************************************************************************)
\* A tiered client that also falls back when the primary found nothing.
TwitterAnalyzer_search_tweets_FallsBackOnEmpty(hasClient, key, searches, file, t, ca, sym, max_results, outcome, pages) ==
    LET x == XAPIv2_search_tweets(hasClient, searches, file, t, ca, sym, outcome)
        io == TwitterAPIio_search_tweets(key, t, ca, sym, max_results, pages)
    IN IF ~x.ret.isNone /\ ~Empty(x.ret)
       THEN [ret |-> x.ret, primary |-> x, io_called |-> FALSE, io_requests |-> 0]
       ELSE [ret |-> io.ret, primary |-> x, io_called |-> TRUE,
             io_requests |-> io.requests]

TwitterAnalyzer_search_tweets(hasClient, key, searches, file, t, ca, sym, max_results, outcome, pages) ==
    LET x == XAPIv2_search_tweets(hasClient, searches, file, t, ca, sym, outcome)
        io == TwitterAPIio_search_tweets(key, t, ca, sym, max_results, pages)
    IN IF ~x.ret.isNone
       THEN [ret |-> x.ret, primary |-> x, io_called |-> FALSE, io_requests |-> 0]
       ELSE [ret |-> io.ret, primary |-> x, io_called |-> TRUE,
             io_requests |-> io.requests]

Addresses == {"", "CA1"}
Symbols == {"", "SYM"}
MaxResultsChoices == {1, 500}

\* The records rate_limits.json can hold when a process starts.
InitialFiles ==
    {NoFile, CorruptFile} \cup
    { [kind |-> "ok", date |-> d, searches |-> s] :
        d \in {0, HoursPerDay},
        s \in {0} \cup ((daily_search_limit - NearLimit)..daily_search_limit) }

\* The query of a search: contract address and symbol; "" is a missing one.
Query(ca, sym) == [contract_address |-> ca, symbol |-> sym]
NoQuery == Query("", "")

\* The page scripts the tiered searches are run against.
TieredPageScripts ==
    { <<PageOf(200, <<>>, FALSE, FALSE)>>,
      <<PageOf(200, <<TwA>>, TRUE, TRUE), PageOf(200, <<TwB>>, FALSE, FALSE)>>,
      <<PageOf(500, <<>>, FALSE, FALSE)>>,
      <<PageRaises>> }

RankUnused ==
    /\ min_mentions = 0
    /\ trending = <<>>
    /\ ranked = FALSE

SecondaryUnused == io_log = <<>>

RiskUnused ==
    /\ coin_data = <<>>
    /\ risk_assessment = <<>>

SentimentUnused ==
    /\ tweets_df = DataFrame(<<>>)
    /\ metrics = <<>>

AnalyzeUnused ==
    /\ request = <<>>
    /\ results = <<>>
    /\ api_response = <<>>
    /\ backend_calls = <<>>

OutcomeUnused == discovery_result = <<>>

ConcUnused ==
    /\ tpc = <<>>
    /\ tloc = <<>>
    /\ tret = <<>>
    /\ up_calls = 0
    /\ initial_searches = 0
    /\ file_size = 0
    /\ tsize = <<>>

EnrichUnused ==
    /\ tokens = <<>>
    /\ max_workers = 0
    /\ task = <<>>
    /\ search_outcome = <<>>
    /\ consulted = <<>>
    /\ tokens_with_mentions = <<>>
    /\ returned = FALSE

DiscoveryUnused ==
    /\ moralis_api_key = FALSE
    /\ listing = <<>>
    /\ minutes_old = 0
    /\ all_tokens = <<>>
    /\ new_tokens = <<>>
    /\ discovered = FALSE

\* XAPIv2.__init__ and TwitterAPIio.__init__ at process start.
Init ==
    /\ now \in {0, HoursPerDay}
    /\ client \in BOOLEAN
    /\ api_key \in BOOLEAN
    /\ rate_limit_file \in InitialFiles
    /\ rate_limit_file.kind = "ok" => rate_limit_file.date <= now
    /\ searches_today = load_rate_limits(rate_limit_file, now)
    /\ result = None
    /\ primary_result = None
    /\ x_calls = 0
    /\ io_called = FALSE
    /\ io_requests = 0
    /\ n_search = 0
    /\ rate_limited_at = -1
    /\ query = NoQuery
    /\ ConcUnused
    /\ EnrichUnused
    /\ DiscoveryUnused
    /\ RankUnused
    /\ SecondaryUnused
    /\ RiskUnused
    /\ SentimentUnused
    /\ AnalyzeUnused
    /\ OutcomeUnused

\* One call of TwitterAnalyzer.search_tweets.
Search ==
    /\ n_search < MaxSearches
    /\ \E ca \in Addresses, sym \in Symbols, mr \in MaxResultsChoices,
          outcome \in XOutcomes, pages \in TieredPageScripts :
          LET r == TwitterAnalyzer_search_tweets(client, api_key, searches_today,
                       rate_limit_file, now, ca, sym, mr, outcome, pages)
          IN /\ result' = r.ret
             /\ primary_result' = r.primary.ret
             /\ searches_today' = r.primary.searches
             /\ rate_limit_file' = r.primary.file
             /\ x_calls' = r.primary.calls
             /\ io_called' = r.io_called
             /\ io_requests' = r.io_requests
             /\ rate_limited_at' = IF r.primary.limited THEN now ELSE rate_limited_at
             /\ query' = Query(ca, sym)
    /\ n_search' = n_search + 1
    /\ UNCHANGED <<now, client, api_key, concVars, enrichVars, discoveryVars, rankVars,
                   secondaryVars, riskVars, sentimentVars,
                   analyzeVars, outcomeVars>>

\* The clock advances by half a day or by a day.
Tick ==
    /\ \E d \in {TickHours, HoursPerDay} :
          /\ now + d <= MaxNow
          /\ now' = now + d
    /\ UNCHANGED <<client, api_key, searches_today, rate_limit_file, result,
                   primary_result, x_calls, io_called, io_requests, n_search,
                   rate_limited_at, query, concVars, enrichVars, discoveryVars, rankVars,
                   secondaryVars, riskVars, sentimentVars,
                   analyzeVars, outcomeVars>>

\* The process is restarted: XAPIv2.__init__ runs load_rate_limits again.
Restart ==
    /\ searches_today' = load_rate_limits(rate_limit_file, now)
    /\ searches_today' # searches_today
    /\ UNCHANGED <<now, client, api_key, rate_limit_file, result,
                   primary_result, x_calls, io_called, io_requests, n_search,
                   rate_limited_at, query, concVars, enrichVars, discoveryVars, rankVars,
                   secondaryVars, riskVars, sentimentVars,
                   analyzeVars, outcomeVars>>

Next == Search \/ Tick \/ Restart

Spec == Init /\ [][Next]_vars
(***************************************************************************)
(* Concurrent callers of one shared XAPIv2 client (SpecConc).  The client  *)
(* holds no lock: every read and write of searches_today and of the record *)
(* is a step of its own.                                                    *)
(***************************************************************************)
Threads == 1..NThreads

TieredUnused ==
    /\ result = None
    /\ primary_result = None
    /\ x_calls = 0
    /\ io_called = FALSE
    /\ io_requests = 0
    /\ n_search = 0
    /\ rate_limited_at = -1
    /\ query = NoQuery

InitConc ==
    /\ now = 0
    /\ client = TRUE
    /\ api_key \in BOOLEAN
    /\ rate_limit_file \in
          {NoFile} \cup
          { [kind |-> "ok", date |-> 0, searches |-> s] :
              s \in (daily_search_limit - NThreads - NearLimit)..daily_search_limit }
    /\ searches_today = load_rate_limits(rate_limit_file, now)
    /\ initial_searches = searches_today
    /\ file_size = IF rate_limit_file.kind = "ok"
                   THEN record_size(rate_limit_file.searches, TRUE)
                   ELSE 0
    /\ tsize = [t \in Threads |-> 0]
    /\ tpc = [t \in Threads |-> "start"]
    /\ tloc = [t \in Threads |-> 0]
    /\ tret = [t \in Threads |-> "running"]
    /\ up_calls = 0
    /\ TieredUnused
    /\ EnrichUnused
    /\ DiscoveryUnused
    /\ RankUnused
    /\ SecondaryUnused
    /\ RiskUnused
    /\ SentimentUnused
    /\ AnalyzeUnused
    /\ OutcomeUnused

ConcFrame ==
    UNCHANGED <<now, client, api_key, result, primary_result, x_calls,
                io_called, io_requests, n_search, rate_limited_at, query,
                initial_searches, enrichVars, discoveryVars, rankVars,
                secondaryVars, riskVars, sentimentVars,
                   analyzeVars, outcomeVars>>

\* if not self.client or not self.can_search(): return None
CheckQuota(t) ==
    /\ tpc[t] = "start"
    /\ IF ~client \/ ~can_search(searches_today)
       THEN /\ tpc' = [tpc EXCEPT ![t] = "done"]
            /\ tret' = [tret EXCEPT ![t] = "refused"]
       ELSE /\ tpc' = [tpc EXCEPT ![t] = "call"]
            /\ tret' = tret
    /\ UNCHANGED <<searches_today, rate_limit_file, file_size, tsize, tloc, up_calls>>
    /\ ConcFrame

\* self.client.search_recent_tweets(...) answers.
UpstreamResponds(t) ==
    /\ tpc[t] = "call"
    /\ up_calls' = up_calls + 1
    /\ tpc' = [tpc EXCEPT ![t] = "inc_load"]
    /\ tret' = [tret EXCEPT ![t] = "response"]
    /\ UNCHANGED <<searches_today, rate_limit_file, file_size, tsize, tloc>>
    /\ ConcFrame

\* self.client.search_recent_tweets(...) raises tweepy.TooManyRequests.
UpstreamTooManyRequests(t) ==
    /\ tpc[t] = "call"
    /\ up_calls' = up_calls + 1
    /\ tpc' = [tpc EXCEPT ![t] = "set_limit"]
    /\ tret' = [tret EXCEPT ![t] = "limited"]
    /\ UNCHANGED <<searches_today, rate_limit_file, file_size, tsize, tloc>>
    /\ ConcFrame

\* self.client.search_recent_tweets(...) raises another exception.
UpstreamFails(t) ==
    /\ tpc[t] = "call"
    /\ up_calls' = up_calls + 1
    /\ tpc' = [tpc EXCEPT ![t] = "done"]
    /\ tret' = [tret EXCEPT ![t] = "error"]
    /\ UNCHANGED <<searches_today, rate_limit_file, file_size, tsize, tloc>>
    /\ ConcFrame

\* self.searches_today += 1, the read.
IncLoad(t) ==
    /\ tpc[t] = "inc_load"
    /\ tloc' = [tloc EXCEPT ![t] = searches_today]
    /\ tpc' = [tpc EXCEPT ![t] = "inc_store"]
    /\ UNCHANGED <<searches_today, rate_limit_file, file_size, tsize, tret, up_calls>>
    /\ ConcFrame

\* self.searches_today += 1, the write.
IncStore(t) ==
    /\ tpc[t] = "inc_store"
    /\ searches_today' = increment_search_count(tloc[t])
    /\ tpc' = [tpc EXCEPT ![t] = "save_build"]
    /\ UNCHANGED <<rate_limit_file, file_size, tsize, tloc, tret, up_calls>>
    /\ ConcFrame

\* self.searches_today = self.daily_search_limit
SetLimit(t) ==
    /\ tpc[t] = "set_limit"
    /\ searches_today' = daily_search_limit
    /\ tpc' = [tpc EXCEPT ![t] = "save_build"]
    /\ UNCHANGED <<rate_limit_file, file_size, tsize, tloc, tret, up_calls>>
    /\ ConcFrame

\* save_rate_limits: data = {'date': ..., 'searches': self.searches_today}
SaveBuild(t) ==
    /\ tpc[t] = "save_build"
    /\ tloc' = [tloc EXCEPT ![t] = searches_today]
    /\ \E micro \in BOOLEAN :
          tsize' = [tsize EXCEPT ![t] = record_size(searches_today, micro)]
    /\ tpc' = [tpc EXCEPT ![t] = "save_open"]
    /\ UNCHANGED <<searches_today, rate_limit_file, file_size, tret, up_calls>>
    /\ ConcFrame

\* save_rate_limits: open(self.rate_limit_file, 'w') truncates the file; until
\* the dump it holds nothing a reader can parse.
SaveOpen(t) ==
    /\ tpc[t] = "save_open"
    /\ rate_limit_file' = CorruptFile
    /\ file_size' = 0
    /\ tpc' = [tpc EXCEPT ![t] = "save_write"]
    /\ UNCHANGED <<searches_today, tloc, tsize, tret, up_calls>>
    /\ ConcFrame

\* save_rate_limits: json.dump(data, f) and the close of the with block: the
\* record is written from offset 0 of this thread's handle. Over a longer
\* content another handle wrote since the open, it leaves that content's
\* tail behind it, which json.load rejects.
SaveWrite(t) ==
    /\ tpc[t] = "save_write"
    /\ IF tsize[t] >= file_size
       THEN /\ rate_limit_file' = save_rate_limits(now, tloc[t])
            /\ file_size' = tsize[t]
       ELSE /\ rate_limit_file' = CorruptFile
            /\ file_size' = file_size
    /\ tpc' = [tpc EXCEPT ![t] = "done"]
    /\ UNCHANGED <<searches_today, tloc, tsize, tret, up_calls>>
    /\ ConcFrame

NextConc ==
    \E t \in Threads :
        \/ CheckQuota(t)
        \/ UpstreamResponds(t)
        \/ UpstreamTooManyRequests(t)
        \/ UpstreamFails(t)
        \/ IncLoad(t)
        \/ IncStore(t)
        \/ SetLimit(t)
        \/ SaveBuild(t)
        \/ SaveOpen(t)
        \/ SaveWrite(t)

SpecConc == InitConc /\ [][NextConc]_vars

AllDone == \A t \in Threads : tpc[t] = "done"
AllResponded == \A t \in Threads : tret[t] = "response"

\* C6: when k concurrent primary searches on one client each got an upstream
\* response, the counter in memory and the persisted count are the initial
\* value plus k.
C6_NoLostIncrement ==
    (tpc # <<>> /\ AllDone /\ AllResponded) =>
        /\ searches_today = initial_searches + NThreads
        /\ rate_limit_file.kind = "ok"
        /\ rate_limit_file.searches = initial_searches + NThreads

(***************************************************************************)
(* TokenDiscovery.check_twitter_mentions: the enrichment worker pool       *)
(* (SpecEnrich).                                                           *)
(***************************************************************************)
RECURSIVE SumOf(_, _)
SumOf(rows, col) ==
    IF rows = <<>> THEN 0 ELSE rows[1][col] + SumOf(Tail(rows), col)

RECURSIVE MaxOf(_, _)
MaxOf(rows, col) ==
    IF Len(rows) = 1 THEN rows[1][col]
    ELSE LET m == MaxOf(Tail(rows), col)
         IN IF rows[1][col] >= m THEN rows[1][col] ELSE m

\* tweets[col].mean(), kept as the fraction <<sum, count>>.
MeanOf(rows, col) == <<SumOf(rows, col), Len(rows)>>
Zero == <<0, 1>>

\* tweets.nlargest(1, 'followers').iloc[0]: the first row holding the maximum.
RECURSIVE FirstLargest(_, _)
FirstLargest(rows, col) ==
    IF rows[1][col] = MaxOf(rows, col) THEN rows[1]
    ELSE FirstLargest(Tail(rows), col)

\* The fields written when nothing was found or the search failed; None is
\* the empty sequence, a digest is a sequence of one record.
ZeroFields ==
    [twitter_mentions |-> 0, twitter_data |-> <<>>, total_views |-> 0,
     total_likes |-> 0, total_retweets |-> 0, avg_followers |-> Zero,
     max_followers |-> 0, top_influencer |-> <<>>]

\* An enrichment that sums the wrong column for total_views.
EnrichedFields_WrongColumn(rows) ==
    LET top == FirstLargest(rows, "followers")
    IN [twitter_mentions |-> Len(rows), twitter_data |-> rows,
        total_views |-> SumOf(rows, "likes"),
        total_likes |-> SumOf(rows, "likes"),
        total_retweets |-> SumOf(rows, "retweets"),
        avg_followers |-> MeanOf(rows, "followers"),
        max_followers |-> MaxOf(rows, "followers"),
        top_influencer |-> <<[username |-> top.username,
                              followers |-> top.followers]>>]

\* The fields written from a non-empty table of mentions.
EnrichedFields(rows) ==
    LET top == FirstLargest(rows, "followers")
    IN [twitter_mentions |-> Len(rows), twitter_data |-> rows,
        total_views |-> SumOf(rows, "views"),
        total_likes |-> SumOf(rows, "likes"),
        total_retweets |-> SumOf(rows, "retweets"),
        avg_followers |-> MeanOf(rows, "followers"),
        max_followers |-> MaxOf(rows, "followers"),
        top_influencer |-> <<[username |-> top.username,
                              followers |-> top.followers]>>]

\* What self.twitter_client.search_tweets did for one token.
Raised == [raises |-> TRUE, ret |-> None]
Returned(df) == [raises |-> FALSE, ret |-> df]

\* check_single_token: dict keys written later win over the ones present.
check_single_token(token, outcome) ==
    LET withDefaults == token @@ ZeroFields
    IN IF outcome.raises
       THEN ZeroFields @@ withDefaults
       ELSE IF ~Empty(outcome.ret)
       THEN EnrichedFields(outcome.ret.rows) @@ withDefaults
       ELSE ZeroFields @@ withDefaults

\* token.setdefault(key, default) for the eight fields: a key already
\* present keeps its value.
setdefault(token) == token @@ ZeroFields

\* A token as get_new_tokens hands it over.
Candidate(i) ==
    [contract_address |-> "CA" \o ToString(i), symbol |-> "SYM" \o ToString(i)]

PoolSizes == {2, 5}

\* The searches a task can see: TokenDiscovery.twitter_client is a
\* TwitterAPIio, so each is one secondary search, or an injected failure.
SearchOutcomes(key, t, token) ==
    {Raised} \cup
    { Returned(TwitterAPIio_search_tweets(key, t, token.contract_address,
                                          token.symbol, 100, pages).ret) :
        pages \in PageScripts }

InitEnrich ==
    /\ now = 0
    /\ client = TRUE
    /\ api_key \in BOOLEAN
    /\ rate_limit_file \in {NoFile, [kind |-> "ok", date |-> 0,
                                     searches |-> daily_search_limit]}
    /\ searches_today = load_rate_limits(rate_limit_file, now)
    /\ \E n \in 1..BatchSize : tokens = [i \in 1..n |-> Candidate(i)]
    /\ max_workers \in PoolSizes
    /\ task = [i \in 1..Len(tokens) |-> "new"]
    /\ search_outcome = [i \in 1..Len(tokens) |-> <<>>]
    /\ consulted = [i \in 1..Len(tokens) |-> {}]
    /\ tokens_with_mentions = <<>>
    /\ returned = FALSE
    /\ TieredUnused
    /\ ConcUnused
    /\ DiscoveryUnused
    /\ RankUnused
    /\ SecondaryUnused
    /\ RiskUnused
    /\ SentimentUnused
    /\ AnalyzeUnused
    /\ OutcomeUnused

EnrichFrame ==
    UNCHANGED <<tieredVars, concVars, max_workers, discoveryVars, rankVars,
                secondaryVars, riskVars, sentimentVars,
                   analyzeVars, outcomeVars>>

\* The tasks that hold a worker: from the moment a worker takes one to its
\* return, a call that will never be answered included.
Running ==
    {i \in 1..Len(tokens) :
        task[i] \in {"running", "calling", "answered", "blocked"}}
Submitted == {i \in 1..Len(tokens) : task[i] = "submitted"}

\* {executor.submit(check_single_token, token): token for token in tokens}:
\* one submit per token, in input order; the workers run meanwhile.
Submit(i) ==
    /\ task[i] = "new"
    /\ \A j \in 1..(i - 1) : task[j] # "new"
    /\ task' = [task EXCEPT ![i] = "submitted"]
    /\ UNCHANGED <<tokens, search_outcome, consulted, tokens_with_mentions,
                   returned>>
    /\ EnrichFrame

\* A free worker takes the oldest queued task.
StartTask(i) ==
    /\ task[i] = "submitted"
    /\ \A j \in Submitted : i <= j
    /\ Cardinality(Running) < max_workers
    /\ task' = [task EXCEPT ![i] = "running"]
    /\ UNCHANGED <<tokens, search_outcome, consulted, tokens_with_mentions,
                   returned>>
    /\ EnrichFrame

\* check_single_token up to its call: the eight token.setdefault(...) writes
\* into the caller's dict, then self.twitter_client.search_tweets(...).
CallBackend(i) ==
    /\ task[i] = "running"
    /\ tokens' = [tokens EXCEPT ![i] = setdefault(tokens[i])]
    /\ consulted' = [consulted EXCEPT ![i] = {"secondary"}]
    /\ task' = [task EXCEPT ![i] = "calling"]
    /\ UNCHANGED <<search_outcome, tokens_with_mentions, returned>>
    /\ EnrichFrame

\* search_tweets returns its frame, or raises.
SearchReturns(i) ==
    /\ task[i] = "calling"
    /\ \E o \in SearchOutcomes(api_key, now, tokens[i]) :
          search_outcome' = [search_outcome EXCEPT ![i] = <<o>>]
    /\ task' = [task EXCEPT ![i] = "answered"]
    /\ UNCHANGED <<tokens, consulted, tokens_with_mentions, returned>>
    /\ EnrichFrame

\* The fields are written from the frame and the task returns its token; the
\* dict has no reader until the future is done.
WriteFields(i) ==
    /\ task[i] = "answered"
    /\ tokens' = [tokens EXCEPT
                     ![i] = check_single_token(tokens[i], search_outcome[i][1])]
    /\ task' = [task EXCEPT ![i] = "finished"]
    /\ UNCHANGED <<search_outcome, consulted, tokens_with_mentions, returned>>
    /\ EnrichFrame

\* for future in as_completed(...): tokens_with_mentions.append(future.result())
Collect(i) ==
    /\ task[i] = "finished"
    /\ \A j \in 1..Len(tokens) : task[j] # "new"
    /\ tokens_with_mentions' = Append(tokens_with_mentions, tokens[i])
    /\ task' = [task EXCEPT ![i] = "collected"]
    /\ UNCHANGED <<tokens, search_outcome, consulted, returned>>
    /\ EnrichFrame

\* A return that does not wait for the tasks still queued or running.
Return_WithoutWaiting ==
    /\ ~returned
    /\ tokens # <<>>
    /\ \E i \in 1..Len(tokens) : task[i] = "collected"
    /\ returned' = TRUE
    /\ UNCHANGED <<tokens, task, search_outcome, consulted,
                   tokens_with_mentions>>
    /\ EnrichFrame

\* The with block ends and the list is returned.
Return ==
    /\ ~returned
    /\ tokens # <<>>
    /\ \A i \in 1..Len(tokens) : task[i] = "collected"
    /\ returned' = TRUE
    /\ UNCHANGED <<tokens, task, search_outcome, consulted,
                   tokens_with_mentions>>
    /\ EnrichFrame

(***************************************************************************)
(* discover_trending_tokens after the enrichment: filter, score, sort.     *)
(***************************************************************************)
MinMentionsChoices == {-1, 0, 1, 2}

\* A filter that also drops the tokens that are exactly at the floor.
with_min_mentions_AboveFloor(rows, m) ==
    LET enough(t) == t.twitter_mentions > m
    IN IF m > 0 THEN SelectSeq(rows, enough) ELSE rows

\* [t for t in tokens_with_mentions if t.get('twitter_mentions', 0) >= min_mentions]
with_min_mentions(rows, m) ==
    LET enough(t) == t.twitter_mentions >= m
    IN IF m > 0 THEN SelectSeq(rows, enough) ELSE rows

\* A score that gives likes the weight of retweets and retweets that of likes.
trending_score_SwapsWeights(t) ==
    [num |-> t.twitter_mentions * 10 * ScoreScale
             + t.total_views * (ScoreScale \div 1000)
             + t.total_likes * 3 * ScoreScale
             + t.total_retweets * 2 * ScoreScale
             + t.max_followers * (ScoreScale \div 10000),
     den |-> ScoreScale]

\* df['trending_score'] of one row, as the fraction num / den.
trending_score(t) ==
    [num |-> t.twitter_mentions * 10 * ScoreScale
             + t.total_views * (ScoreScale \div 1000)
             + t.total_likes * 2 * ScoreScale
             + t.total_retweets * 3 * ScoreScale
             + t.max_followers * (ScoreScale \div 10000),
     den |-> ScoreScale]

with_trending_score(rows) ==
    [k \in 1..Len(rows) |-> [trending_score |-> trending_score(rows[k])] @@ rows[k]]

\* df.sort_values('trending_score', ascending=False): the default kind is
\* quicksort, which is not stable, so rows of equal score come in any order.
sort_values_trending_score(rows) ==
    LET n == Len(rows)
        orders == { q \in [1..n -> 1..n] :
                      /\ \A j, k \in 1..n : j # k => q[j] # q[k]
                      /\ \A k \in 1..(n - 1) :
                            rows[q[k]].trending_score.num
                                >= rows[q[k + 1]].trending_score.num }
    IN { [k \in 1..n |-> rows[q[k]]] : q \in orders }

\* The rest of discover_trending_tokens once check_twitter_mentions returned.
RankTokens ==
    /\ returned
    /\ ~ranked
    /\ \E m \in MinMentionsChoices :
          /\ min_mentions' = m
          /\ trending' \in sort_values_trending_score(
                  with_trending_score(with_min_mentions(tokens_with_mentions, m)))
    /\ ranked' = TRUE
    /\ UNCHANGED <<tieredVars, concVars, enrichVars, discoveryVars,
                   secondaryVars, riskVars, sentimentVars,
                   analyzeVars, outcomeVars>>

NextEnrich ==
    \/ \E i \in 1..Len(tokens) : Submit(i)
    \/ \E i \in 1..Len(tokens) : StartTask(i)
    \/ \E i \in 1..Len(tokens) : CallBackend(i)
    \/ \E i \in 1..Len(tokens) : SearchReturns(i)
    \/ \E i \in 1..Len(tokens) : WriteFields(i)
    \/ \E i \in 1..Len(tokens) : Collect(i)
    \/ Return
    \/ RankTokens

SpecEnrich == InitEnrich /\ [][NextEnrich]_vars

\* The entries of the returned list that carry token i's address.
OutputOf(i) ==
    { k \in 1..Len(tokens_with_mentions) :
        tokens_with_mentions[k].contract_address = Candidate(i).contract_address }

PrimaryExhausted == ~can_search(searches_today)

\* C7: when the primary backend has no quota left for the whole batch, every
\* token's task consulted the primary and then called the secondary, and
\* every input token is in the returned list.
C7_EveryTokenThroughTieredFallback ==
    (returned /\ PrimaryExhausted) =>
        \A i \in 1..Len(tokens) :
            /\ consulted[i] = {"primary", "secondary"}
            /\ OutputOf(i) # {}

\* C8: a token whose search raised is returned with the count fields 0 and
\* top_influencer None, and every other token is returned with the fields
\* computed from the mentions its own search returned.
C8_FailureIsLocal ==
    returned =>
        \A i \in 1..Len(tokens) :
            /\ Cardinality(OutputOf(i)) = 1
            /\ \A k \in OutputOf(i) :
                  LET tok == tokens_with_mentions[k]
                      o == search_outcome[i][1]
                      rows == o.ret.rows
                  IN IF o.raises \/ rows = <<>>
                     THEN /\ tok.twitter_mentions = 0
                          /\ tok.total_views = 0
                          /\ tok.total_likes = 0
                          /\ tok.total_retweets = 0
                          /\ tok.avg_followers[1] = 0
                          /\ tok.max_followers = 0
                          /\ tok.top_influencer = <<>>
                     ELSE /\ tok.twitter_mentions = Len(rows)
                          /\ tok.total_views = SumOf(rows, "views")
                          /\ tok.total_likes = SumOf(rows, "likes")
                          /\ tok.total_retweets = SumOf(rows, "retweets")
                          /\ tok.avg_followers = <<SumOf(rows, "followers"), Len(rows)>>
                          /\ \A r \in 1..Len(rows) :
                                rows[r].followers <= tok.max_followers
                          /\ \E r \in 1..Len(rows) :
                                /\ rows[r].followers = tok.max_followers
                                /\ tok.top_influencer[1].username = rows[r].username
                                /\ tok.top_influencer[1].followers = tok.max_followers

C8_Witness ==
    /\ returned
    /\ Len(tokens) = 3
    /\ search_outcome[2][1].raises
    /\ ~search_outcome[1][1].raises
    /\ ~search_outcome[3][1].raises
    /\ tokens_with_mentions[1].contract_address = "CA3"
    /\ tokens_with_mentions[1].twitter_mentions = 2
    /\ tokens_with_mentions[2].contract_address = "CA2"
    /\ tokens_with_mentions[2].twitter_mentions = 0
    /\ tokens_with_mentions[3].contract_address = "CA1"
    /\ tokens_with_mentions[3].twitter_mentions = 1

(***************************************************************************)
(* TokenDiscovery.get_new_tokens: listing records to deduplicated          *)
(* candidates (SpecDiscovery).  The clock counts minutes here.             *)
(***************************************************************************)
\* A createdAt value: no field (or an empty one), an ISO string with 'T'
\* (with or without a UTC offset), a 'YYYY-MM-DD HH:MM:SS' string, or
\* something that does not parse.
NoTimestamp == [kind |-> "absent", at |-> 0, tz |-> FALSE]
IsoTimestamp(at, tz) == [kind |-> "iso", at |-> at, tz |-> tz]
PlainTimestamp(at) == [kind |-> "plain", at |-> at, tz |-> FALSE]
BadTimestamp == [kind |-> "garbage", at |-> 0, tz |-> FALSE]

\* A raw listing record; "" stands for a missing or empty field.
Listed(mint, address, tokenAddress, symbol, createdAt) ==
    [mint |-> mint, address |-> address, tokenAddress |-> tokenAddress,
     symbol |-> symbol, createdAt |-> createdAt]

DiscoveryNow == 10
FreshAt == DiscoveryNow - 1
OldAt == DiscoveryNow - 5
MinutesOldChoices == {3, 10}

RawRecords ==
    { Listed("A", "", "", "S1", IsoTimestamp(FreshAt, TRUE)),
      Listed("A", "", "", "S2", BadTimestamp),
      Listed("B", "", "", "S3", NoTimestamp),
      Listed("", "B", "", "S4", PlainTimestamp(FreshAt)),
      Listed("", "", "A", "S5", IsoTimestamp(OldAt, TRUE)),
      Listed("", "", "", "S6", BadTimestamp),
      Listed("", "", "", "S7", IsoTimestamp(FreshAt, TRUE)),
      Listed("B", "", "", "S8", IsoTimestamp(OldAt, FALSE)) }

\* token.get('mint') or token.get('address') or token.get('tokenAddress')
ContractAddr(token) ==
    IF token.mint # "" THEN token.mint
    ELSE IF token.address # "" THEN token.address
    ELSE token.tokenAddress

MoralisToken(token, created_at) ==
    [contract_address |-> ContractAddr(token), symbol |-> token.symbol,
     created_at |-> created_at, source |-> "moralis_pumpfun"]

\* A loop body with an else branch that adds records without a timestamp.
moralis_record_IncludesUndated(token, t, cutoff_time) ==
    LET ts == token.createdAt
    IN IF ts.kind = "absent" THEN <<MoralisToken(token, t)>>
       ELSE IF ts.kind = "garbage" THEN <<MoralisToken(token, t)>>
       ELSE IF ts.kind = "iso" /\ ~ts.tz THEN <<MoralisToken(token, t)>>
       ELSE IF ts.at >= cutoff_time THEN <<MoralisToken(token, ts.at)>>
       ELSE <<>>

\* The body of the loop over token_list: the tokens one record adds.
moralis_record(token, t, cutoff_time) ==
    LET ts == token.createdAt
    IN IF ts.kind = "absent" THEN <<>>
       \* the parse raises: the except branch adds the token dated now
       ELSE IF ts.kind = "garbage" THEN <<MoralisToken(token, t)>>
       \* a naive datetime compared with the aware cutoff raises as well
       ELSE IF ts.kind = "iso" /\ ~ts.tz THEN <<MoralisToken(token, t)>>
       ELSE IF ts.at >= cutoff_time THEN <<MoralisToken(token, ts.at)>>
       ELSE <<>>

\* A loop without the inner try: the first record that fails to parse ends
\* the batch in the outer handler.
RECURSIVE moralis_loop_AbortsOnBadRecord(_, _, _)
moralis_loop_AbortsOnBadRecord(token_list, t, cutoff_time) ==
    IF token_list = <<>> THEN <<>>
    ELSE IF Head(token_list).createdAt.kind = "garbage" THEN <<>>
    ELSE moralis_record(Head(token_list), t, cutoff_time)
            \o moralis_loop_AbortsOnBadRecord(Tail(token_list), t, cutoff_time)

RECURSIVE moralis_loop(_, _, _)
moralis_loop(token_list, t, cutoff_time) ==
    IF token_list = <<>> THEN <<>>
    ELSE moralis_record(Head(token_list), t, cutoff_time)
            \o moralis_loop(Tail(token_list), t, cutoff_time)

\* What requests.get on the listing endpoint does.
ListingAnswer(status, records) ==
    [raises |-> FALSE, status |-> status, result |-> records]
ListingRaises == [raises |-> TRUE, status |-> 0, result |-> <<>>]

get_moralis_new_tokens(response, t, minutes) ==
    IF response.raises THEN <<>>
    ELSE IF response.status = 200
    THEN moralis_loop(response.result, t, t - minutes)
    ELSE <<>>

\* A deduplication in which a later record replaces the earlier one.
RECURSIVE remove_duplicates_LastWins(_, _, _)
remove_duplicates_LastWins(tokens_in, seen, unique_tokens) ==
    IF tokens_in = <<>> THEN unique_tokens
    ELSE LET token == Head(tokens_in)
             ca == token.contract_address
         IN IF ca = ""
            THEN remove_duplicates_LastWins(Tail(tokens_in), seen, unique_tokens)
            ELSE IF ca \notin seen
            THEN remove_duplicates_LastWins(Tail(tokens_in), seen \cup {ca},
                                            Append(unique_tokens, token))
            ELSE remove_duplicates_LastWins(Tail(tokens_in), seen,
                    [k \in 1..Len(unique_tokens) |->
                        IF unique_tokens[k].contract_address = ca
                        THEN token ELSE unique_tokens[k]])

\* A deduplication without the check for a missing address.
RECURSIVE remove_duplicates_KeepsAddressless(_, _, _)
remove_duplicates_KeepsAddressless(tokens_in, seen, unique_tokens) ==
    IF tokens_in = <<>> THEN unique_tokens
    ELSE LET token == Head(tokens_in)
             ca == token.contract_address
         IN IF ca \notin seen
            THEN remove_duplicates_KeepsAddressless(Tail(tokens_in),
                    seen \cup {ca}, Append(unique_tokens, token))
            ELSE remove_duplicates_KeepsAddressless(Tail(tokens_in), seen,
                                                    unique_tokens)

\* The loop of get_new_tokens over all_tokens with its seen set.
RECURSIVE remove_duplicates(_, _, _)
remove_duplicates(tokens_in, seen, unique_tokens) ==
    IF tokens_in = <<>> THEN unique_tokens
    ELSE LET token == Head(tokens_in)
             ca == token.contract_address
         IN IF ca = ""
            THEN remove_duplicates(Tail(tokens_in), seen, unique_tokens)
            ELSE IF ca \notin seen
            THEN remove_duplicates(Tail(tokens_in), seen \cup {ca},
                                   Append(unique_tokens, token))
            ELSE remove_duplicates(Tail(tokens_in), seen, unique_tokens)

get_new_tokens(key, response, t, minutes) ==
    LET all == IF key THEN get_moralis_new_tokens(response, t, minutes) ELSE <<>>
    IN [all_tokens |-> all, unique_tokens |-> remove_duplicates(all, {}, <<>>)]

RECURSIVE SeqsUpTo(_, _)
SeqsUpTo(S, n) ==
    IF n = 0 THEN {<<>>}
    ELSE LET shorter == SeqsUpTo(S, n - 1)
         IN shorter \cup { Append(q, x) : q \in shorter, x \in S }

Listings ==
    {ListingRaises, ListingAnswer(429, <<>>)} \cup
    { ListingAnswer(200, records) : records \in SeqsUpTo(RawRecords, MaxRecords) }

InitDiscovery ==
    /\ now = DiscoveryNow
    /\ client = TRUE
    /\ api_key = TRUE
    /\ searches_today = 0
    /\ rate_limit_file = NoFile
    /\ moralis_api_key \in BOOLEAN
    /\ listing \in Listings
    /\ minutes_old = 0
    /\ all_tokens = <<>>
    /\ new_tokens = <<>>
    /\ discovered = FALSE
    /\ TieredUnused
    /\ ConcUnused
    /\ EnrichUnused
    /\ RankUnused
    /\ SecondaryUnused
    /\ RiskUnused
    /\ SentimentUnused
    /\ AnalyzeUnused
    /\ OutcomeUnused

\* One call of get_new_tokens(minutes_old).
GetNewTokens ==
    /\ ~discovered
    /\ \E m \in MinutesOldChoices :
          LET r == get_new_tokens(moralis_api_key, listing, now, m)
          IN /\ minutes_old' = m
             /\ all_tokens' = r.all_tokens
             /\ new_tokens' = r.unique_tokens
    /\ discovered' = TRUE
    /\ UNCHANGED <<tieredVars, concVars, enrichVars, moralis_api_key, listing,
                   rankVars, secondaryVars, riskVars, sentimentVars,
                   analyzeVars, outcomeVars>>

\* What discover_trending_tokens returns: a frame and the error message it
\* carries; pd.DataFrame() carries none.
Outcome(frame, error) == [frame |-> frame, error |-> error]

\* One call of discover_trending_tokens(minutes_old) up to its first return:
\* with no new token it returns pd.DataFrame(); with some, the batch goes on
\* to check_twitter_mentions (SpecEnrich) and nothing is returned yet.
DiscoverTrendingTokens ==
    /\ ~discovered
    /\ \E m \in MinutesOldChoices :
          LET r == get_new_tokens(moralis_api_key, listing, now, m)
          IN /\ minutes_old' = m
             /\ all_tokens' = r.all_tokens
             /\ new_tokens' = r.unique_tokens
             /\ discovery_result' =
                    IF r.unique_tokens = <<>>
                    THEN <<Outcome(DataFrame(<<>>), <<>>)>>
                    ELSE <<>>
    /\ discovered' = TRUE
    /\ UNCHANGED <<tieredVars, concVars, enrichVars, moralis_api_key, listing,
                   rankVars, secondaryVars, riskVars, sentimentVars,
                   analyzeVars>>

NextDiscovery == GetNewTokens \/ DiscoverTrendingTokens

SpecDiscovery == InitDiscovery /\ [][NextDiscovery]_vars

\* The position of the first record of all_tokens with a given address.
FirstIndexOf(ca) ==
    CHOOSE j \in 1..Len(all_tokens) :
        /\ all_tokens[j].contract_address = ca
        /\ \A i \in 1..(j - 1) : all_tokens[i].contract_address # ca

\* C9: get_new_tokens returns, in first-seen order, exactly the first record
\* of each distinct contract address of the raw tokens: no address occurs
\* twice and a later record never replaces the first.
C9_DedupFirstSeenWins ==
    discovered =>
        /\ \A k, l \in 1..Len(new_tokens) :
              new_tokens[k].contract_address = new_tokens[l].contract_address
                 => k = l
        /\ \A j \in 1..Len(all_tokens) :
              all_tokens[j].contract_address # "" =>
                 \E k \in 1..Len(new_tokens) :
                    new_tokens[k].contract_address = all_tokens[j].contract_address
        /\ \A k \in 1..Len(new_tokens) :
              /\ \E j \in 1..Len(all_tokens) : all_tokens[j] = new_tokens[k]
              /\ new_tokens[k] = all_tokens[FirstIndexOf(new_tokens[k].contract_address)]
        /\ \A k, l \in 1..Len(new_tokens) :
              k < l => FirstIndexOf(new_tokens[k].contract_address)
                          < FirstIndexOf(new_tokens[l].contract_address)

C9_Witness ==
    /\ discovered
    /\ Len(all_tokens) = 3
    /\ all_tokens[1].contract_address = "B"
    /\ all_tokens[2].contract_address = "A"
    /\ all_tokens[3].contract_address = "A"
    /\ all_tokens[2].symbol # all_tokens[3].symbol
    /\ new_tokens = <<all_tokens[1], all_tokens[2]>>

\* The records of the listing answer that get_new_tokens read.
ReadRecords ==
    IF moralis_api_key /\ ~listing.raises /\ listing.status = 200
    THEN listing.result ELSE <<>>

\* C10 as claimed: a listing record with a usable contract address and no
\* creation timestamp is in the discovery output, dated with the current time.
C10_UndatedRecordIncluded ==
    discovered =>
        \A j \in 1..Len(ReadRecords) :
            (ReadRecords[j].createdAt.kind = "absent"
                /\ ContractAddr(ReadRecords[j]) # "") =>
               \E k \in 1..Len(new_tokens) :
                  /\ new_tokens[k].contract_address = ContractAddr(ReadRecords[j])
                  /\ new_tokens[k].created_at = now

\* C10 as the code has it: a listing record without a creation timestamp is
\* never in the discovery output; the record dated with the current time is
\* the one whose timestamp is present but fails to parse, unless an earlier
\* record of the answer took its address.
C10_UndatedRecordDropped ==
    discovered =>
        \A j \in 1..Len(ReadRecords) :
            LET rec == ReadRecords[j]
            IN /\ rec.createdAt.kind = "absent" =>
                     \A k \in 1..Len(new_tokens) : new_tokens[k].symbol # rec.symbol
               /\ (rec.createdAt.kind = "garbage" /\ ContractAddr(rec) # ""
                     /\ \A i \in 1..(j - 1) :
                           ContractAddr(ReadRecords[i]) # ContractAddr(rec)
                              \/ ReadRecords[i].createdAt.kind = "absent") =>
                     \E k \in 1..Len(new_tokens) :
                        /\ new_tokens[k].symbol = rec.symbol
                        /\ new_tokens[k].contract_address = ContractAddr(rec)
                        /\ new_tokens[k].created_at = now

C10_Witness ==
    /\ discovered
    /\ Len(ReadRecords) = 2
    /\ ReadRecords[1].createdAt.kind = "absent"
    /\ ContractAddr(ReadRecords[1]) = "B"
    /\ ReadRecords[2].createdAt.kind = "garbage"
    /\ Len(new_tokens) = 1
    /\ new_tokens[1].contract_address = "A"
    /\ new_tokens[1].created_at = now

\* C11 as claimed: a listing record whose timestamp is present but does not
\* parse is not in the discovery output.
C11_UnparseableRecordDropped ==
    discovered =>
        \A j \in 1..Len(ReadRecords) :
            ReadRecords[j].createdAt.kind = "garbage" =>
               \A k \in 1..Len(new_tokens) :
                  new_tokens[k].symbol # ReadRecords[j].symbol

\* C11 as the code has it: a record whose timestamp is present but does not
\* parse is added to the batch dated with the current time, and the records
\* after it are still processed: a later record with a fresh, parseable
\* timestamp is added with its own creation time.
C11_UnparseableRecordKept ==
    discovered =>
        \A j \in 1..Len(ReadRecords) :
            ReadRecords[j].createdAt.kind = "garbage" =>
               /\ \E k \in 1..Len(all_tokens) :
                     /\ all_tokens[k].symbol = ReadRecords[j].symbol
                     /\ all_tokens[k].created_at = now
               /\ \A i \in (j + 1)..Len(ReadRecords) :
                     LET ts == ReadRecords[i].createdAt
                     IN (ts.kind \in {"iso", "plain"} /\ (ts.kind = "iso" => ts.tz)
                           /\ ts.at >= now - minutes_old) =>
                           \E k \in 1..Len(all_tokens) :
                              /\ all_tokens[k].symbol = ReadRecords[i].symbol
                              /\ all_tokens[k].created_at = ts.at

C11_Witness ==
    /\ discovered
    /\ Len(ReadRecords) = 2
    /\ ReadRecords[1].createdAt.kind = "garbage"
    /\ ReadRecords[2].createdAt.kind = "plain"
    /\ Len(new_tokens) = 2
    /\ new_tokens[1].symbol = ReadRecords[1].symbol
    /\ new_tokens[1].created_at = now
    /\ new_tokens[2].symbol = ReadRecords[2].symbol
    /\ new_tokens[2].created_at = FreshAt

\* C12: every token get_new_tokens returns has a contract address; a record
\* with none of mint, address and tokenAddress is not returned, whether it
\* was added by the dated branch or by the branch for unparseable dates.
C12_NoTokenWithoutAddress ==
    discovered =>
        /\ \A k \in 1..Len(new_tokens) : new_tokens[k].contract_address # ""
        /\ \A j \in 1..Len(ReadRecords) :
              ContractAddr(ReadRecords[j]) = "" =>
                 \A k \in 1..Len(new_tokens) :
                    new_tokens[k].symbol # ReadRecords[j].symbol

C12_Witness ==
    /\ discovered
    /\ Len(all_tokens) = 3
    /\ \E k \in 1..3 : /\ all_tokens[k].contract_address = ""
                       /\ all_tokens[k].created_at = now
    /\ \E k \in 1..3 : /\ all_tokens[k].contract_address = ""
                       /\ all_tokens[k].created_at = FreshAt
    /\ Len(new_tokens) = 1
    /\ new_tokens[1].contract_address # ""

(***************************************************************************)
(* Properties of the tiered client and of the quota counter (Spec).        *)
(***************************************************************************)
SearchStep == n_search' = n_search + 1

RecordIsOfToday(file, t) == file.kind = "ok" /\ DateOf(file.date) = DateOf(t)

\* C1: the secondary backend is called exactly when the primary returned
\* None; a primary result that is not None, in particular one with zero
\* mentions, is returned as it is and the secondary is not called.
C1_FallbackOnlyOnNone ==
    n_search > 0 =>
        /\ io_called <=> primary_result.isNone
        /\ ~primary_result.isNone =>
              result = primary_result /\ ~io_called /\ io_requests = 0

C1_Witness ==
    /\ n_search > 0
    /\ x_calls = 1
    /\ ~primary_result.isNone
    /\ Empty(primary_result)
    /\ result = DataFrame(<<>>)
    /\ ~io_called

\* C2: a primary search that starts with searches_today >= daily_search_limit
\* makes no upstream call, leaves the counter and the persisted record as
\* they were and returns None, which is not the empty result.
C2_ExhaustedIsNotAttempted ==
    [][(SearchStep /\ searches_today >= daily_search_limit) =>
          /\ x_calls' = 0
          /\ searches_today' = searches_today
          /\ rate_limit_file' = rate_limit_file
          /\ primary_result' = None
          /\ primary_result' # DataFrame(<<>>)]_vars

C2_Witness ==
    /\ n_search > 0
    /\ client
    /\ rate_limited_at = -1
    /\ searches_today >= daily_search_limit
    /\ x_calls = 0
    /\ primary_result = None

\* C3: a primary search whose upstream call returned a response adds exactly
\* one to the counter and writes the new value, dated now, to the record; and
\* whenever the record is dated today its count is the in-memory count, so a
\* restart on that day loads exactly that count.
C3_IncrementIsPersisted ==
    [][/\ (SearchStep /\ x_calls' = 1 /\ ~primary_result'.isNone) =>
             /\ searches_today' = searches_today + 1
             /\ rate_limit_file' = [kind |-> "ok", date |-> now,
                                    searches |-> searches_today']
       /\ RecordIsOfToday(rate_limit_file', now') =>
             /\ rate_limit_file'.searches = searches_today'
             /\ load_rate_limits(rate_limit_file', now') = searches_today'
      ]_vars

C3_Witness ==
    /\ n_search >= 2
    /\ x_calls = 1
    /\ ~primary_result.isNone
    /\ searches_today = 2
    /\ rate_limit_file = [kind |-> "ok", date |-> now, searches |-> 2]

\* C4: the search answered with 'too many requests' sets the counter to the
\* daily limit and persists it, and every later primary search on that day,
\* also after a restart, returns None without an upstream call.
C4_TooManyRequestsExhaustsTheDay ==
    [][/\ (SearchStep /\ rate_limited_at' # rate_limited_at) =>
             /\ searches_today' = daily_search_limit
             /\ rate_limit_file' = [kind |-> "ok", date |-> now,
                                    searches |-> daily_search_limit]
       /\ (SearchStep /\ rate_limited_at >= 0
             /\ DateOf(rate_limited_at) = DateOf(now)) =>
             /\ x_calls' = 0
             /\ primary_result' = None
      ]_vars

C4_Witness ==
    /\ rate_limited_at >= 0
    /\ rate_limited_at < now
    /\ DateOf(rate_limited_at) = DateOf(now)
    /\ n_search >= 2
    /\ x_calls = 0
    /\ primary_result = None
    /\ io_called

\* C5: a primary search issued on a later day than the day of the persisted
\* count (or with no usable record) sees a counter of 0.
C5_CounterResetsAtDayBoundary ==
    [][(SearchStep /\ ~RecordIsOfToday(rate_limit_file, now)) =>
          searches_today = 0]_vars

(***************************************************************************)
(* Properties of the tiered client: empty query, totality.                 *)
(***************************************************************************)
\* The primary backend can be asked: it has a client and quota is left.
PrimaryUsable == client /\ can_search(searches_today)

\* C13 as stated: a tiered search with neither a contract address nor a
\* symbol returns an empty result and makes no upstream call on either
\* backend, whatever the configuration.
C13_EmptyQueryAlwaysEmpty ==
    [][(SearchStep /\ query' = NoQuery) =>
          /\ ~result'.isNone
          /\ Empty(result')
          /\ x_calls' = 0
          /\ io_requests' = 0]_vars

\* C13 as the code has it: a tiered search with neither a contract address
\* nor a symbol makes no upstream call on either backend in every
\* configuration; it returns the empty result when the primary is usable or
\* the secondary key is configured, and the mock dataset of the call time
\* when the primary is unusable and the secondary key is not configured.
C13_EmptyQueryNoUpstreamCall ==
    [][(SearchStep /\ query' = NoQuery) =>
          /\ x_calls' = 0
          /\ io_requests' = 0
          /\ result' = IF PrimaryUsable \/ api_key
                        THEN DataFrame(<<>>)
                        ELSE DataFrame(get_mock_data(now))]_vars

C13_Witness ==
    /\ n_search > 0
    /\ query = NoQuery
    /\ ~api_key
    /\ primary_result = None
    /\ io_called
    /\ x_calls = 0
    /\ io_requests = 0
    /\ Len(result.rows) = 8

\* C14: whatever the query and whatever the two backends answer (mentions,
\* no mention, quota exhausted, too many requests, an exception, a non-200
\* response), the tiered search hands a table to its caller, never None.
C14_AlwaysATable ==
    n_search > 0 => ~result.isNone

C14_Witness ==
    /\ n_search > 0
    /\ query # NoQuery
    /\ x_calls = 1
    /\ primary_result = None
    /\ api_key
    /\ io_called
    /\ io_requests = 1
    /\ result = DataFrame(get_mock_data(now))


(***************************************************************************)
(* SpecSecondary: the secondary backend used on its own.  io_log holds the *)
(* two most recent searches.  Of the last one: what was asked, when, what  *)
(* the upstream was scripted to answer, how many page requests were sent   *)
(* and what came back; of the one before it: what was asked, when, and     *)
(* what came back.                                                         *)
(***************************************************************************)
SecondaryMaxResults == {2, 500}

IoCall(ca, sym, mr, pages, t, r) ==
    [query |-> Query(ca, sym), max_results |-> mr, pages |-> pages, at |-> t,
     ret |-> r.ret, requests |-> r.requests]

Earlier(call) == [call EXCEPT !.max_results = 0, !.pages = <<>>, !.requests = 0]

LastTwo(log, call) ==
    IF log = <<>> THEN <<call>> ELSE <<Earlier(log[Len(log)]), call>>

LastCall == io_log[Len(io_log)]

InitSecondary ==
    /\ now = 0
    /\ client = FALSE
    /\ api_key \in BOOLEAN
    /\ searches_today = 0
    /\ rate_limit_file = NoFile
    /\ io_log = <<>>
    /\ TieredUnused
    /\ ConcUnused
    /\ EnrichUnused
    /\ DiscoveryUnused
    /\ RankUnused
    /\ RiskUnused
    /\ SentimentUnused
    /\ AnalyzeUnused
    /\ OutcomeUnused

\* One call of TwitterAPIio.search_tweets.
SecondarySearch ==
    /\ \E ca \in Addresses, sym \in Symbols, mr \in SecondaryMaxResults,
          pages \in PageScripts :
          LET r == TwitterAPIio_search_tweets(api_key, now, ca, sym, mr, pages)
          IN io_log' = LastTwo(io_log, IoCall(ca, sym, mr, pages, now, r))
    /\ UNCHANGED <<tieredVars, concVars, enrichVars, discoveryVars, rankVars,
                   riskVars, sentimentVars,
                   analyzeVars, outcomeVars>>

NextSecondary ==
    \/ SecondarySearch
    \/ Tick

SpecSecondary == InitSecondary /\ [][NextSecondary]_vars

\* Mentions received on the first i pages of a script.
RECURSIVE TweetsThrough(_, _)
TweetsThrough(pages, i) ==
    IF i = 0 THEN 0 ELSE TweetsThrough(pages, i - 1) + Len(PageAt(pages, i).tweets)

\* After page i the loop has a reason to stop.
MustStopAfter(call, i) ==
    LET p == PageAt(call.pages, i)
    IN \/ p.tweets = <<>>
       \/ TweetsThrough(call.pages, i) >= call.max_results
       \/ ~p.has_next_page

\* C15: a secondary search sends at most max_pages (10) page requests, and no
\* page it received before its last request was empty, brought the mentions
\* to max_results or reported that there is no next page; this for every
\* script of answers, the one that always reports a next page included.
C15_PagingStops ==
    io_log # <<>> =>
        /\ LastCall.requests <= max_pages
        /\ \A i \in 1..(LastCall.requests - 1) : ~MustStopAfter(LastCall, i)

C15_Witness ==
    /\ api_key
    /\ io_log # <<>>
    /\ LastCall.pages = <<PageOf(200, <<TwA>>, TRUE, TRUE)>>
    /\ LastCall.max_results = 500
    /\ LastCall.requests = max_pages
    /\ Len(LastCall.ret.rows) = max_pages

\* The mentions of a table without their dates.
Undated(df) ==
    [k \in 1..Len(df.rows) |-> [df.rows[k] EXCEPT !.created_at = 0]]

\* C16 as stated: without a secondary key any two searches return the same
\* mock dataset, every field of every mention equal.
C16_MockIdentical ==
    ~api_key =>
        \A j, k \in 1..Len(io_log) : io_log[j].ret = io_log[k].ret

\* C16 as the code has it: without a secondary key any two searches return
\* the same eight mentions with equal values in every field but created_at;
\* the created_at of the n-th mention is the time of the call minus n hours.
C16_MockIdenticalButDates ==
    ~api_key =>
        /\ \A j, k \in 1..Len(io_log) :
              Undated(io_log[j].ret) = Undated(io_log[k].ret)
        /\ \A k \in 1..Len(io_log) :
              /\ Len(io_log[k].ret.rows) = 8
              /\ \A n \in 1..8 :
                    io_log[k].ret.rows[n].created_at = io_log[k].at - n

C16_Witness ==
    /\ ~api_key
    /\ Len(io_log) = 2
    /\ io_log[1].query # io_log[2].query
    /\ io_log[1].at # io_log[2].at
    /\ io_log[1].ret # io_log[2].ret
    /\ Undated(io_log[1].ret) = Undated(io_log[2].ret)


(***************************************************************************)
(* Properties of the ranking (SpecEnrich).                                 *)
(***************************************************************************)
\* Position of a ranked row's token in the batch discovery started from.
InputIndex(row) ==
    CHOOSE i \in 1..Len(tokens) :
        tokens[i].contract_address = row.contract_address

\* C17: the frame discover_trending_tokens returns holds the enriched tokens
\* with at least min_mentions mentions, each with trending_score =
\* twitter_mentions*10 + total_views/1000 + total_likes*2 + total_retweets*3
\* + max_followers/10000 of its own fields, in non-increasing score order.
C17_RankedByTrendingScore ==
    ranked =>
        /\ \A k \in 1..Len(trending) :
              /\ trending[k].trending_score.den = 10000
              /\ trending[k].trending_score.num =
                      trending[k].twitter_mentions * 100000
                      + trending[k].total_views * 10
                      + trending[k].total_likes * 20000
                      + trending[k].total_retweets * 30000
                      + trending[k].max_followers
              /\ \E j \in 1..Len(tokens_with_mentions) :
                    /\ tokens_with_mentions[j].twitter_mentions >= min_mentions
                    /\ trending[k] =
                          [trending_score |-> trending[k].trending_score]
                              @@ tokens_with_mentions[j]
        /\ Len(trending) =
              Cardinality({ j \in 1..Len(tokens_with_mentions) :
                  tokens_with_mentions[j].twitter_mentions >= min_mentions })
        /\ \A k \in 1..(Len(trending) - 1) :
              trending[k].trending_score.num >= trending[k + 1].trending_score.num

C17_Witness ==
    /\ ranked
    /\ min_mentions = 1
    /\ Len(tokens_with_mentions) = 3
    /\ Len(trending) = 2
    /\ trending[1].contract_address = tokens_with_mentions[3].contract_address
    /\ trending[2].contract_address = tokens_with_mentions[1].contract_address
    /\ trending[1].trending_score.num > trending[2].trending_score.num
    /\ trending[2].total_likes # trending[2].total_retweets

\* C18: tokens of equal trending_score come out of the ranking in the order
\* in which the batch held them.
C18_TiesKeepInputOrder ==
    ranked =>
        \A j, k \in 1..Len(trending) :
            (j < k /\ trending[j].trending_score = trending[k].trending_score)
                => InputIndex(trending[j]) < InputIndex(trending[k])


(***************************************************************************)
(* SpecRisk: calculate_risk_score applied to one metrics snapshot.         *)
(***************************************************************************)
\* A field of the snapshot as the provider writes it: a number string with
\* or without '%', a word such as "Low", or no field at all.
Percent(tenths, sign) == [kind |-> "number", tenths |-> tenths, sign |-> sign]
Word == [kind |-> "word", tenths |-> 0, sign |-> FALSE]
Absent == [kind |-> "absent", tenths |-> 0, sign |-> FALSE]

\* float(coin_data.get(name, '0').replace('%', ''))
parse_holdings(field) ==
    [raises |-> field.kind = "word",
     value |-> IF field.kind = "number" THEN field.tenths ELSE 0]

Factor(rule, text, value) == [rule |-> rule, text |-> text, value |-> value]
NoPoints == [points |-> 0, factors |-> <<>>]

\* if insider_holdings > 30: ... elif insider_holdings > 20: ...
insider_rule(x) ==
    IF x > 30 * Tenths
    THEN [points |-> 30,
          factors |-> <<Factor("insider", "High insider holdings", x)>>]
    ELSE IF x > 20 * Tenths
    THEN [points |-> 20,
          factors |-> <<Factor("insider", "Moderate insider holdings", x)>>]
    ELSE NoPoints

sniper_rule(x) ==
    IF x > 15 * Tenths
    THEN [points |-> 25,
          factors |-> <<Factor("sniper", "High sniper activity", x)>>]
    ELSE IF x > 10 * Tenths
    THEN [points |-> 15,
          factors |-> <<Factor("sniper", "Moderate sniper activity", x)>>]
    ELSE NoPoints

\* coin_data.get('bundlers', 0)
get_bundlers(field) == IF field.kind = "number" THEN field.tenths ELSE 0

bundler_rule(n) ==
    IF n > 5
    THEN [points |-> 20,
          factors |-> <<Factor("bundler", "High bundler count", n)>>]
    ELSE IF n > 2
    THEN [points |-> 10,
          factors |-> <<Factor("bundler", "Moderate bundler count", n)>>]
    ELSE NoPoints

\* not coin_data.get('lp_burned', False)
lp_rule(field) ==
    IF field # "True"
    THEN [points |-> 25, factors |-> <<Factor("lp", "LP not burned", 0)>>]
    ELSE NoPoints

\* A level whose HIGH starts above 70.
risk_level_StrictHigh(risk_score) ==
    IF risk_score > 70 THEN [level |-> "HIGH", color |-> "red"]
    ELSE IF risk_score >= 40 THEN [level |-> "MEDIUM", color |-> "yellow"]
    ELSE [level |-> "LOW", color |-> "green"]

risk_level(risk_score) ==
    IF risk_score >= 70 THEN [level |-> "HIGH", color |-> "red"]
    ELSE IF risk_score >= 40 THEN [level |-> "MEDIUM", color |-> "yellow"]
    ELSE [level |-> "LOW", color |-> "green"]

RiskRaised ==
    [raises |-> TRUE, score |-> 0, level |-> "", color |-> "", factors |-> <<>>]

calculate_risk_score(data) ==
    LET insider == parse_holdings(data.insider_holdings)
        sniper == parse_holdings(data.sniper_holdings)
        a == insider_rule(insider.value)
        b == sniper_rule(sniper.value)
        c == bundler_rule(get_bundlers(data.bundlers))
        e == lp_rule(data.lp_burned)
        risk_score == a.points + b.points + c.points + e.points
        lvl == risk_level(risk_score)
    IN IF insider.raises \/ sniper.raises
       THEN RiskRaised
       ELSE [raises |-> FALSE, score |-> risk_score, level |-> lvl.level,
             color |-> lvl.color,
             factors |-> a.factors \o b.factors \o c.factors \o e.factors]

HoldingsTenths == {20, 50, 100, 101, 150, 151, 200, 201, 300, 301, 350}

HoldingsFields ==
    { Percent(t, FALSE) : t \in HoldingsTenths }
        \cup {Percent(35 * Tenths, TRUE), Word, Absent}

BundlersFields == { Percent(n, FALSE) : n \in 0..MaxBundlers } \cup {Absent}

Snapshots ==
    [insider_holdings : HoldingsFields, sniper_holdings : HoldingsFields,
     bundlers : BundlersFields, lp_burned : {"True", "False", "absent"}]

InitRisk ==
    /\ now = 0
    /\ client = FALSE
    /\ api_key = FALSE
    /\ searches_today = 0
    /\ rate_limit_file = NoFile
    /\ coin_data \in Snapshots
    /\ risk_assessment = <<>>
    /\ TieredUnused
    /\ ConcUnused
    /\ EnrichUnused
    /\ DiscoveryUnused
    /\ RankUnused
    /\ SecondaryUnused
    /\ SentimentUnused
    /\ AnalyzeUnused
    /\ OutcomeUnused

\* One call of calculate_risk_score(coin_data).
AssessRisk ==
    /\ risk_assessment = <<>>
    /\ risk_assessment' = <<calculate_risk_score(coin_data)>>
    /\ UNCHANGED <<tieredVars, concVars, enrichVars, discoveryVars, rankVars,
                   secondaryVars, coin_data, sentimentVars,
                   analyzeVars, outcomeVars>>

NextRisk == AssessRisk

SpecRisk == InitRisk /\ [][NextRisk]_vars

Assessed == risk_assessment # <<>>
Assessment == risk_assessment[1]

InsiderOf == coin_data.insider_holdings.tenths
SniperOf == coin_data.sniper_holdings.tenths
BundlersOf == coin_data.bundlers.tenths
LpNotBurned == coin_data.lp_burned # "True"

\* The points of the rule table; the 20 and 15 point rules start at `low20`
\* and `low10` tenths of a percent, the lower end included.
TablePoints(low20, low10) ==
    (IF InsiderOf > 300 THEN 30 ELSE IF InsiderOf >= low20 THEN 20 ELSE 0)
    + (IF SniperOf > 150 THEN 25 ELSE IF SniperOf >= low10 THEN 15 ELSE 0)
    + (IF BundlersOf > 5 THEN 20 ELSE IF BundlersOf >= 3 THEN 10 ELSE 0)
    + (IF LpNotBurned THEN 25 ELSE 0)

Example100 ==
    /\ InsiderOf = 350
    /\ SniperOf = 200
    /\ BundlersOf = 6
    /\ LpNotBurned

Example0 ==
    /\ InsiderOf = 50
    /\ SniperOf = 20
    /\ BundlersOf = 1
    /\ ~LpNotBurned

\* C19: for every metrics snapshot calculate_risk_score returns a score, and
\* the score is the sum of the rule-table points, each rule counted at most
\* once: insider holdings above 30% give 30, from 20% to 30% (both ends) give
\* 20; sniper holdings above 15% give 25, from 10% to 15% (both ends) give
\* 15; more than 5 bundlers give 20, 3 to 5 give 10; LP not burned gives 25.
\* {35%, 20%, 6, not burned} scores 100 and {5%, 2%, 1, burned} scores 0.
C19_ScoreIsTableSumBothEnds ==
    Assessed =>
        /\ ~Assessment.raises
        /\ Assessment.score = TablePoints(200, 100)
        /\ Example100 => Assessment.score = 100
        /\ Example0 => Assessment.score = 0

\* The rules the snapshot triggers, in the order of the table.
RuleOrder == <<"insider", "sniper", "bundler", "lp">>

Triggered(rule) ==
    \/ rule = "insider" /\ InsiderOf > 200
    \/ rule = "sniper" /\ SniperOf > 100
    \/ rule = "bundler" /\ BundlersOf > 2
    \/ rule = "lp" /\ LpNotBurned

\* C20: a score that calculate_risk_score returns lies in 0..100; the level
\* is HIGH exactly when the score is at least 70, MEDIUM exactly when it is
\* from 40 to 69 and LOW exactly when it is below 40; the factors are one
\* entry for each triggered rule, in the order insider, sniper, bundler, LP.
C20_ScoreLevelFactors ==
    (Assessed /\ ~Assessment.raises) =>
        /\ Assessment.score \in 0..100
        /\ Assessment.level \in {"LOW", "MEDIUM", "HIGH"}
        /\ Assessment.level = "HIGH" <=> Assessment.score >= 70
        /\ Assessment.level = "MEDIUM" <=>
              (40 <= Assessment.score /\ Assessment.score < 70)
        /\ Assessment.level = "LOW" <=> Assessment.score < 40
        /\ [k \in 1..Len(Assessment.factors) |-> Assessment.factors[k].rule]
              = SelectSeq(RuleOrder, Triggered)

C20_Witness ==
    /\ Assessed
    /\ ~Assessment.raises
    /\ Assessment.score = 70
    /\ Assessment.level = "HIGH"
    /\ Len(Assessment.factors) = 3
    /\ Assessment.factors[1].rule = "insider"
    /\ Assessment.factors[3].rule = "lp"


(***************************************************************************)
(* SpecSentiment: get_aggregate_metrics applied to one frame of analysed   *)
(* mentions.  A mention carries the label and the score analyze_tweets     *)
(* gave it (the score in hundredths); means are fractions <<sum, count>>.  *)
(***************************************************************************)
Sentiments == {"positive", "negative", "neutral"}

Analysed(label, score, vw, rt, lk, fol) ==
    [sentiment |-> label, sentiment_score |-> score, views |-> vw,
     retweets |-> rt, likes |-> lk, followers |-> fol]

AnalysedTweets ==
    { Analysed("positive", 50, 1000, 10, 20, 500),
      Analysed("positive", 80, 3000, 30, 40, 20000),
      Analysed("negative", -60, 200, 2, 4, 100),
      Analysed("neutral", 0, 50, 0, 1, 10) }

RECURSIVE FramesUpTo(_)
FramesUpTo(n) ==
    IF n = 0 THEN {<<>>}
    ELSE LET shorter == FramesUpTo(n - 1)
         IN shorter \cup { Append(f, t) : f \in shorter, t \in AnalysedTweets }

\* A dict with no key.
EmptyDict == [k \in {} |-> 0]

\* tweets_df[tweets_df['sentiment'] == sentiment]
OfSentiment(rows, label) ==
    LET has(t) == t.sentiment = label
    IN SelectSeq(rows, has)

\* tweets_df['sentiment'].value_counts().to_dict(): the labels that occur.
value_counts(rows) ==
    [label \in { l \in Sentiments : OfSentiment(rows, l) # <<>> } |->
        Len(OfSentiment(rows, label))]

\* sentiment_counts.get(label, 0)
get_count(counts, label) == IF label \in DOMAIN counts THEN counts[label] ELSE 0

ZeroEngagement ==
    [avg_views |-> Zero, avg_retweets |-> Zero, avg_likes |-> Zero,
     total_reach |-> 0, avg_followers |-> Zero]

engagement_of(bucket) ==
    IF bucket # <<>>
    THEN [avg_views |-> MeanOf(bucket, "views"),
          avg_retweets |-> MeanOf(bucket, "retweets"),
          avg_likes |-> MeanOf(bucket, "likes"),
          total_reach |-> SumOf(bucket, "followers"),
          avg_followers |-> MeanOf(bucket, "followers")]
    ELSE ZeroEngagement

get_aggregate_metrics(df) ==
    IF Empty(df)
    THEN [total_tweets |-> 0, positive_count |-> 0, negative_count |-> 0,
          neutral_count |-> 0, average_sentiment |-> Zero,
          sentiment_distribution |-> EmptyDict,
          engagement_by_sentiment |-> EmptyDict]
    ELSE LET sentiment_counts == value_counts(df.rows)
         IN [total_tweets |-> Len(df.rows),
             positive_count |-> get_count(sentiment_counts, "positive"),
             negative_count |-> get_count(sentiment_counts, "negative"),
             neutral_count |-> get_count(sentiment_counts, "neutral"),
             average_sentiment |-> MeanOf(df.rows, "sentiment_score"),
             sentiment_distribution |-> sentiment_counts,
             engagement_by_sentiment |->
                 [label \in Sentiments |->
                     engagement_of(OfSentiment(df.rows, label))]]

InitSentiment ==
    /\ now = 0
    /\ client = FALSE
    /\ api_key = FALSE
    /\ searches_today = 0
    /\ rate_limit_file = NoFile
    /\ tweets_df \in { DataFrame(f) : f \in FramesUpTo(MaxTweets) }
    /\ metrics = <<>>
    /\ TieredUnused
    /\ ConcUnused
    /\ EnrichUnused
    /\ DiscoveryUnused
    /\ RankUnused
    /\ SecondaryUnused
    /\ RiskUnused
    /\ AnalyzeUnused
    /\ OutcomeUnused

\* One call of get_aggregate_metrics(tweets_df).
Aggregate ==
    /\ metrics = <<>>
    /\ metrics' = <<get_aggregate_metrics(tweets_df)>>
    /\ UNCHANGED <<tieredVars, concVars, enrichVars, discoveryVars, rankVars,
                   secondaryVars, riskVars, tweets_df, analyzeVars,
                   outcomeVars>>

NextSentiment == Aggregate

SpecSentiment == InitSentiment /\ [][NextSentiment]_vars

Aggregated == metrics # <<>>
Metrics == metrics[1]

\* C21: the aggregation of an empty frame has total 0, the three counts 0,
\* average sentiment 0 and, under engagement_by_sentiment, an entry for each
\* of positive, negative and neutral whose five figures are all 0.
C21_EmptyAggregateIsZeroPerBucket ==
    (Aggregated /\ Empty(tweets_df)) =>
        /\ Metrics.total_tweets = 0
        /\ Metrics.positive_count = 0
        /\ Metrics.negative_count = 0
        /\ Metrics.neutral_count = 0
        /\ Metrics.average_sentiment[1] = 0
        /\ DOMAIN Metrics.engagement_by_sentiment = Sentiments
        /\ \A label \in Sentiments :
              Metrics.engagement_by_sentiment[label] = ZeroEngagement


(***************************************************************************)
(* Properties of the mentions floor (SpecEnrich).                          *)
(***************************************************************************)
\* C22: whatever min_mentions is, every token of the frame returned by
\* discover_trending_tokens has at least min_mentions mentions, and every
\* enriched token with at least min_mentions mentions is in that frame.
C22_MinMentionsFloor ==
    ranked =>
        /\ \A k \in 1..Len(trending) : trending[k].twitter_mentions >= min_mentions
        /\ \A j \in 1..Len(tokens_with_mentions) :
              tokens_with_mentions[j].twitter_mentions >= min_mentions =>
                  \E k \in 1..Len(trending) :
                      /\ trending[k].contract_address =
                            tokens_with_mentions[j].contract_address
                      /\ trending[k].twitter_mentions =
                            tokens_with_mentions[j].twitter_mentions

C22_Witness ==
    /\ ranked
    /\ min_mentions = 2
    /\ Len(tokens_with_mentions) = 3
    /\ tokens_with_mentions[1].twitter_mentions = 1
    /\ tokens_with_mentions[2].twitter_mentions = 2
    /\ tokens_with_mentions[3].twitter_mentions = 0
    /\ Len(trending) = 1
    /\ trending[1].contract_address = tokens_with_mentions[2].contract_address


(***************************************************************************)
(* SpecAnalyze: one request to the /analyze handler.  The handler checks   *)
(* the address, MemeCoinAnalyzer.analyze_coin runs the social search, the  *)
(* sentiment step, the metrics provider and the risk scorer.  A value that *)
(* may be None is a sequence: <<>> is None, <<v>> is the value v.          *)
(***************************************************************************)
\* What a step that did not raise gave.
Gives(v) == [raises |-> FALSE, message |-> "", value |-> v]

\* An address is the sequence of its characters; "" is <<>>.
HexDigits ==
    <<"0", "1", "2", "3", "4", "5", "6", "7", "8", "9", "a", "b", "c", "d",
      "e", "f", "A", "B", "C", "D", "E", "F">>
AddressHexDigits == 44

\* "0x" followed by n hex digits.
HexAddress(n) ==
    <<"0", "x">> \o [k \in 1..n |-> HexDigits[((k - 1) % Len(HexDigits)) + 1]]

\* An address of the form ^0x[a-fA-F0-9]{44}$, and addresses that are not:
\* empty, not hexadecimal at all, too long, too short, one digit off.
WellFormedAddress == HexAddress(AddressHexDigits)
NotAnAddress ==
    <<"n", "o", "t", "-", "a", "n", "-", "a", "d", "d", "r", "e", "s", "s">>
RequestAddresses ==
    {<<>>, NotAnAddress, WellFormedAddress,
     HexAddress(AddressHexDigits + 2), HexAddress(AddressHexDigits - 4),
     [WellFormedAddress EXCEPT ![AddressHexDigits] = "g"],
     Append(WellFormedAddress, "\n")}

\* re.match(pattern, address) of the commented-out return; '$' also matches
\* before a newline that ends the string.
MatchesPattern(address) ==
    LET body == IF address # <<>> /\ address[Len(address)] = "\n"
                THEN SubSeq(address, 1, Len(address) - 1)
                ELSE address
    IN /\ Len(body) = AddressHexDigits + 2
       /\ body[1] = "0"
       /\ body[2] = "x"
       /\ \A k \in 3..Len(body) :
             \E h \in 1..Len(HexDigits) : body[k] = HexDigits[h]

\* validate_contract_address: 'return bool('true')' for a non-empty address.
validate_contract_address(address) ==
    IF address = <<>> THEN FALSE ELSE TRUE

\* The float sum of the top holders' percentages: the decimal sum in
\* hundredths of a percent, and on which side of it the float lies (-1 below,
\* 0 equal, 1 above). Only a multiple of a quarter can be hit exactly.
Hundredths == 100
FloatSum(hundredths, side) == [hundredths |-> hundredths, side |-> side]
FloatSides(hundredths) ==
    IF hundredths % (Hundredths \div 4) = 0 THEN {-1, 0, 1} ELSE {-1, 1}

\* top_holders_percentage > 30 on the float.
above_thirty(x) ==
    \/ x.hundredths > 30 * Hundredths
    \/ x.hundredths = 30 * Hundredths /\ x.side = 1

\* f"{top_holders_percentage:.1f}" in tenths: the float is rounded to the
\* nearest tenth, a float exactly half-way to the even one.
format_1f(x) ==
    LET q == x.hundredths \div Tenths
        r == x.hundredths % Tenths
    IN IF r > 5 THEN q + 1
       ELSE IF r < 5 THEN q
       ELSE IF x.side = 1 THEN q + 1
       ELSE IF x.side = -1 THEN q
       ELSE IF q % 2 = 0 THEN q ELSE q + 1

\* _calculate_insider_holdings: holders_info is <<x>> with x the float sum of
\* the top holders found on the page, or <<>> when the page has no holder
\* element or reading one raised.
NoHolders == <<>>
calculate_insider_holdings(holders_info) ==
    IF holders_info = NoHolders THEN Percent(153, FALSE)
    ELSE IF above_thirty(holders_info[1])
    THEN Percent(format_1f(holders_info[1]), FALSE)
    ELSE Word

\* CoinDataScraper._get_mock_data, the fields the risk scorer reads.
coin_mock_data ==
    [insider_holdings |-> Percent(125, FALSE),
     sniper_holdings |-> Percent(63, FALSE),
     bundlers |-> Percent(2, FALSE), lp_burned |-> "True"]

\* What the page gave: nothing (no driver, or the scrape raised), or the
\* holders' share and whether an 'LP Burned' element was found.
NoPage == [scraped |-> FALSE, top |-> NoHolders, lp |-> FALSE]
Page(top, lp) == [scraped |-> TRUE, top |-> top, lp |-> lp]
HolderSums == {1200, 3000, 3004, 3005, 3010, 3025, 3075, 4500}
HolderTops ==
    {NoHolders} \cup
    UNION { { <<FloatSum(h, side)>> : side \in FloatSides(h) } : h \in HolderSums }
Pages == {NoPage} \cup { Page(top, lp) : top \in HolderTops, lp \in BOOLEAN }

\* CoinDataScraper.get_coin_data.
get_coin_data(page) ==
    IF page.scraped
    THEN [insider_holdings |-> calculate_insider_holdings(page.top),
          sniper_holdings |-> Percent(87, FALSE),
          bundlers |-> Percent(3, FALSE),
          lp_burned |-> IF page.lp THEN "True" ELSE "False"]
    ELSE coin_mock_data

\* The search backends read of the address only whether it is empty
\* ('if contract_address:'); the query text sent upstream is not modelled.
AsQueryPart(address) == IF address = <<>> THEN "" ELSE "CA1"

\* MemeCoinAnalyzer.fetch_twitter_data: TwitterAnalyzer.search_tweets with
\* its default max_results.
default_max_results == 500
fetch_twitter_data(hasClient, key, searches, file, t, address, sym, outcome, pages) ==
    TwitterAnalyzer_search_tweets(hasClient, key, searches, file, t,
        AsQueryPart(address), sym, default_max_results, outcome, pages)

\* The rows of the frame were read from pages of the secondary upstream.
\* Only such a row can hold a text that is null ('text': tweet.get('text',
\* '')); the mock rows and the primary's rows hold strings.
RowsFromPages(key, t, address, sym, pages, chain) ==
    /\ chain.io_called
    /\ ~Empty(chain.ret)
    /\ ~TwitterAPIio_search_tweets(key, t, AsQueryPart(address), sym,
                                   default_max_results, pages).mock

\* The sentiment step is done, or raises on a row whose text is null.
SentimentOutcomes(from_pages) ==
    IF from_pages THEN {"done", "raises"} ELSE {"done"}

\* get_coin_data never raises and never returns an empty mapping: what the
\* page gave, or the mock data.
ProviderOutcomes ==
    { Gives(<<get_coin_data(page)>>) : page \in Pages }

\* MemeCoinAnalyzer.analyze_sentiment, as far as the analysis reads it.
\* On the empty frame it returns {}.
analyze_sentiment(df) ==
    IF Empty(df) THEN EmptyDict
    ELSE [tweets |-> df.rows, total_tweets |-> Len(df.rows)]

NoResults(ca, sym) ==
    [contract_address |-> ca, symbol |-> sym, twitter_data |-> <<>>,
     sentiment_analysis |-> <<>>, coin_metrics |-> <<>>,
     risk_assessment |-> <<>>, error |-> <<>>]

Step(name, raised) == [step |-> name, raised |-> raised]

\* A handler that leaves 'error' as it was.
caught_LeavesNone(res, msg) == res

\* except Exception as e: results['error'] = str(e)
caught(res, msg) == [res EXCEPT !.error = <<msg>>]

\* MemeCoinAnalyzer.analyze_coin: the mapping returned and the steps run.
analyze_coin(ca, sym, social, sentiment, provider) ==
    LET r0 == NoResults(ca, sym)
        r1 == [r0 EXCEPT !.twitter_data = <<social.value>>]
        runs_sentiment == ~social.raises /\ ~Empty(social.value)
        r2 == IF runs_sentiment
              THEN [r1 EXCEPT !.sentiment_analysis =
                                  <<analyze_sentiment(social.value)>>]
              ELSE r1
        s2 == <<Step("social", FALSE)>> \o
              (IF runs_sentiment THEN <<Step("sentiment", FALSE)>> ELSE <<>>)
        r3 == [r2 EXCEPT !.coin_metrics = provider.value]
        risk == calculate_risk_score(provider.value[1])
    IN IF social.raises
       THEN [results |-> caught(r0, social.message),
             steps |-> <<Step("social", TRUE)>>]
       ELSE IF runs_sentiment /\ sentiment = "raises"
       THEN [results |-> caught(r1, "sentiment failed"),
             steps |-> <<Step("social", FALSE), Step("sentiment", TRUE)>>]
       ELSE IF provider.raises
       THEN [results |-> caught(r2, provider.message),
             steps |-> s2 \o <<Step("metrics", TRUE)>>]
       ELSE IF provider.value = <<>>
       THEN [results |-> r3, steps |-> s2 \o <<Step("metrics", FALSE)>>]
       ELSE IF risk.raises
       THEN [results |-> caught(r3, "could not convert string to float"),
             steps |-> s2 \o <<Step("metrics", FALSE), Step("risk", TRUE)>>]
       ELSE [results |-> [r3 EXCEPT !.risk_assessment = <<risk>>],
             steps |-> s2 \o <<Step("metrics", FALSE), Step("risk", FALSE)>>]

\* results.get('error'): None and the empty message are both falsy.
error_is_set(res) == res.error # <<>> /\ res.error # <<"">>

Rejected ==
    [status |-> 400, success |-> FALSE,
     error |-> <<"Invalid contract address format">>, data |-> <<>>]

\* The /analyze handler.
api_analyze_coin(req, social, sentiment, provider) ==
    LET a == analyze_coin(req.contract_address, req.symbol, social, sentiment,
                          provider)
    IN IF ~validate_contract_address(req.contract_address)
       THEN [response |-> Rejected, results |-> <<>>, steps |-> <<>>]
       ELSE IF error_is_set(a.results)
       THEN [response |-> [status |-> 200, success |-> FALSE,
                           error |-> a.results.error, data |-> <<>>],
             results |-> <<a.results>>, steps |-> a.steps]
       ELSE [response |-> [status |-> 200, success |-> TRUE, error |-> <<>>,
                           data |-> <<[coin_metrics |-> a.results.coin_metrics,
                                       risk_assessment |->
                                           a.results.risk_assessment]>>],
             results |-> <<a.results>>, steps |-> a.steps]

\* MemeCoinAnalyzer() at module load: XAPIv2.__init__ reads the record.
InitAnalyze ==
    /\ now = 0
    /\ client \in BOOLEAN
    /\ api_key \in BOOLEAN
    /\ rate_limit_file \in InitialFiles
    /\ rate_limit_file.kind = "ok" => rate_limit_file.date <= now
    /\ searches_today = load_rate_limits(rate_limit_file, now)
    /\ request \in [contract_address : RequestAddresses, symbol : Symbols]
    /\ results = <<>>
    /\ api_response = <<>>
    /\ backend_calls = <<>>
    /\ TieredUnused
    /\ ConcUnused
    /\ EnrichUnused
    /\ DiscoveryUnused
    /\ RankUnused
    /\ SecondaryUnused
    /\ RiskUnused
    /\ SentimentUnused
    /\ OutcomeUnused

\* One POST /analyze.  A rejected request reaches no backend; an accepted
\* one runs the tiered search, which may count a search and save the record.
AnalyzeRequest ==
    /\ api_response = <<>>
    /\ \E outcome \in XOutcomes, pages \in TieredPageScripts,
          provider \in ProviderOutcomes :
          LET ca == request.contract_address
              sym == request.symbol
              accepted == validate_contract_address(ca)
              chain == fetch_twitter_data(client, api_key, searches_today,
                           rate_limit_file, now, ca, sym, outcome, pages)
              from_pages == RowsFromPages(api_key, now, ca, sym, pages, chain)
          IN \E sentiment \in SentimentOutcomes(from_pages) :
                LET a == api_analyze_coin(request, Gives(chain.ret),
                                          sentiment, provider)
                IN /\ api_response' = <<a.response>>
                   /\ results' = a.results
                   /\ backend_calls' = a.steps
                   /\ IF accepted
                      THEN /\ result' = chain.ret
                           /\ primary_result' = chain.primary.ret
                           /\ searches_today' = chain.primary.searches
                           /\ rate_limit_file' = chain.primary.file
                           /\ x_calls' = chain.primary.calls
                           /\ io_called' = chain.io_called
                           /\ io_requests' = chain.io_requests
                           /\ rate_limited_at' =
                                 IF chain.primary.limited THEN now
                                 ELSE rate_limited_at
                           /\ query' = Query(AsQueryPart(ca), sym)
                           /\ n_search' = n_search + 1
                      ELSE UNCHANGED <<searches_today, rate_limit_file,
                                       result, primary_result, x_calls,
                                       io_called, io_requests, n_search,
                                       rate_limited_at, query>>
    /\ UNCHANGED <<now, client, api_key, concVars, enrichVars, discoveryVars,
                   rankVars, secondaryVars, riskVars, sentimentVars, request,
                   outcomeVars>>

NextAnalyze == AnalyzeRequest

SpecAnalyze == InitAnalyze /\ [][NextAnalyze]_vars

Answered == api_response # <<>>
Analyzed == results # <<>>
Results == results[1]
SomeStepRaised == \E k \in 1..Len(backend_calls) : backend_calls[k].raised

LastStep == backend_calls[Len(backend_calls)]

\* C23: analyze_coin returns its result mapping whatever the social search,
\* the sentiment step, the metrics provider and the risk scorer do; 'error'
\* holds the message of the step that raised, and is None exactly when no
\* step raised.
C23_AnalyzeCoinNeverRaises ==
    (Answered /\ validate_contract_address(request.contract_address)) =>
        /\ Analyzed
        /\ Results.contract_address = request.contract_address
        /\ Results.symbol = request.symbol
        /\ backend_calls # <<>>
        /\ SomeStepRaised <=> Results.error # <<>>
        /\ \A k \in 1..(Len(backend_calls) - 1) : ~backend_calls[k].raised

C23_Witness ==
    /\ Analyzed
    /\ Len(backend_calls) = 4
    /\ LastStep = Step("risk", TRUE)
    /\ Results.sentiment_analysis # <<>>
    /\ Results.coin_metrics # <<>>
    /\ Results.risk_assessment = <<>>
    /\ Results.error = <<"could not convert string to float">>

\* C24: a request whose contract address is not of the recognised form is
\* answered with the invalid-input error and no backend is called for it.
C24_MalformedAddressRejected ==
    (Answered /\ ~MatchesPattern(request.contract_address)) =>
        /\ api_response[1].status = 400
        /\ ~api_response[1].success
        /\ backend_calls = <<>>

\* C30: for every mapping the metrics provider produces, the analysis holds
\* a risk assessment with a score and a level and records no error.
C30_RiskTotalOverProviderSnapshots ==
    (Analyzed /\ Results.coin_metrics # <<>>) =>
        /\ Results.risk_assessment # <<>>
        /\ Results.risk_assessment[1].score \in 0..100
        /\ Results.risk_assessment[1].level \in {"LOW", "MEDIUM", "HIGH"}
        /\ Results.error = <<>>

\* Every listing source was unavailable: no key, a request that raised, or
\* an answer other than 200.
SourcesUnavailable ==
    \/ ~moralis_api_key
    \/ listing.raises
    \/ listing.status # 200

\* C25: when every listing source is unavailable, discover_trending_tokens
\* returns an empty result that carries an error message.
C25_UnavailableSourcesCarryError ==
    (discovery_result # <<>> /\ SourcesUnavailable) =>
        /\ discovery_result[1].frame = DataFrame(<<>>)
        /\ discovery_result[1].error # <<>>

\* C26: check_twitter_mentions returns only after every dispatched task has
\* finished and been collected, and the returned list has the length of the
\* input with each input token in it exactly once, whatever the order in
\* which the workers complete.
C26_FanInBarrier ==
    returned =>
        /\ Running = {}
        /\ Submitted = {}
        /\ \A i \in 1..Len(tokens) : task[i] = "collected"
        /\ Len(tokens_with_mentions) = Len(tokens)
        /\ \A i \in 1..Len(tokens) :
              \E k \in 1..Len(tokens_with_mentions) :
                  /\ tokens_with_mentions[k] = tokens[i]
                  /\ \A j \in 1..Len(tokens_with_mentions) :
                        tokens_with_mentions[j].contract_address =
                            tokens[i].contract_address => j = k

C26_Witness ==
    /\ returned
    /\ max_workers = 2
    /\ Len(tokens) = 3
    /\ tokens_with_mentions[1].contract_address = "CA2"
    /\ tokens_with_mentions[2].contract_address = "CA3"
    /\ tokens_with_mentions[3].contract_address = "CA1"

(***************************************************************************)
(* check_twitter_mentions when the social backend may never answer: the    *)
(* page request of TwitterAPIio.search_tweets is requests.get with no      *)
(* timeout, as_completed is given none, and future.result(timeout=10) is   *)
(* called on futures that are already done.                                *)
(***************************************************************************)
\* The page request of task i's search never answers; with no key the search
\* returns the mock rows without any request.
Hang(i) ==
    /\ task[i] = "calling"
    /\ api_key
    /\ task' = [task EXCEPT ![i] = "blocked"]
    /\ UNCHANGED <<tokens, search_outcome, consulted, tokens_with_mentions,
                   returned>>
    /\ EnrichFrame

\* The steps of the pool and of the collecting loop.
PoolSteps ==
    \/ \E i \in 1..Len(tokens) : Submit(i)
    \/ \E i \in 1..Len(tokens) : StartTask(i)
    \/ \E i \in 1..Len(tokens) : CallBackend(i)
    \/ \E i \in 1..Len(tokens) : WriteFields(i)
    \/ \E i \in 1..Len(tokens) : Collect(i)
    \/ Return

NextEnrichHang ==
    \/ PoolSteps
    \/ \E i \in 1..Len(tokens) : SearchReturns(i)
    \/ \E i \in 1..Len(tokens) : Hang(i)

\* A call in flight is settled: search_tweets returns or raises
\* (SearchReturns), or it is left without an answer for good (Hang).
CallsSettle ==
    \A i \in 1..BatchSize : []<>(i > Len(tokens) \/ task[i] # "calling")

\* The pool and the collecting loop take every step they can take, and
\* every call in flight is settled one way or the other.
SpecEnrichHang ==
    /\ InitEnrich
    /\ [][NextEnrichHang]_vars
    /\ WF_vars(PoolSteps)
    /\ CallsSettle

\* C27: every enrichment task eventually finishes, also when its backend
\* call never answers, so check_twitter_mentions eventually returns.
C27_EveryBatchReturns == <>returned

\* The upstream calls of the day: those the record already counted when the
\* client was built, and those made since.
CallsOfTheDay == initial_searches + up_calls

\* C28: with threads sharing one client, the quota counter never exceeds
\* daily_search_limit and neither does the number of upstream calls of the
\* day.
C28_QuotaNeverExceeded ==
    /\ searches_today <= daily_search_limit
    /\ CallsOfTheDay <= daily_search_limit

\* Every mention a call returned is a tweet of one of the pages the upstream
\* served for it.
FromUpstream(call) ==
    \A k \in 1..Len(call.ret.rows) :
        \E i \in 1..Len(call.pages) :
            /\ ~call.pages[i].raises
            /\ \E j \in 1..Len(call.pages[i].tweets) :
                  call.pages[i].tweets[j] = call.ret.rows[k]

\* C29: with a configured key, every mention the secondary backend returns
\* came from an upstream page of that search, also when a page request
\* raises or answers non-200 part-way through the paging.
C29_MockOnlyWithoutKey ==
    (io_log # <<>> /\ api_key) => FromUpstream(LastCall)

====
